---- MODULE Spec2Model ----
(***************************************************************************)
(* Model of the transaction-SMS parsing engine (src/sms_parser).           *)
(*                                                                         *)
(* A Python str is a sequence of one-character strings, so that every      *)
(* rewrite of process_message and every scan of the extractors is computed *)
(* character by character as the code computes it.  Python's None is the   *)
(* value None below, which is no sequence of characters.                   *)
(***************************************************************************)
EXTENDS Integers, Sequences, FiniteSets, TLC

(***************************************************************************)
(* Strings                                                                 *)
(***************************************************************************)
Chars(str) == [i \in 1..Len(str) |-> SubSeq(str, i, i)]

None == <<"<None>">>

\* Python truthiness of an Optional[str]
Truthy(v) == v # None /\ v # <<>>

Digits == {"0", "1", "2", "3", "4", "5", "6", "7", "8", "9"}

LowerLetters == {"a", "b", "c", "d", "e", "f", "g", "h", "i", "j", "k", "l", "m",
                 "n", "o", "p", "q", "r", "s", "t", "u", "v", "w", "x", "y", "z"}

UpperLetters == {"A", "B", "C", "D", "E", "F", "G", "H", "I", "J", "K", "L", "M",
                 "N", "O", "P", "Q", "R", "S", "T", "U", "V", "W", "X", "Y", "Z"}

UpperString == Chars("ABCDEFGHIJKLMNOPQRSTUVWXYZ")

LowerString == Chars("abcdefghijklmnopqrstuvwxyz")

\* str.lower() on one character
LowerChar(c) ==
    IF c \in UpperLetters
    THEN LowerString[CHOOSE k \in 1..26 : UpperString[k] = c]
    ELSE c

\* regex \w, \s and . (any character but a newline)
IsWordChar(c) == c \in Digits \cup LowerLetters \cup UpperLetters \cup {"_"}

IsSpaceChar(c) == c \in {" ", "\t", "\n", "\r", "\f"}

IsAlnum(c) == c \in Digits \cup LowerLetters \cup UpperLetters

AllDigits(s) == \A k \in 1..Len(s) : s[k] \in Digits

\* s[i : i + len(p)] == p
MatchAt(s, i, p) ==
    /\ i >= 1
    /\ i + Len(p) - 1 <= Len(s)
    /\ \A k \in 1..Len(p) : s[i + k - 1] = p[k]

MinOf(S) == CHOOSE m \in S : \A n \in S : m <= n

\* least element of a set of positions (0: the set is empty)
First(S) == IF S = {} THEN 0 ELSE MinOf(S)

\* a lower-case literal p of a regex compiled with re.IGNORECASE matches at i
MatchAtIgnoreCase(s, i, p) ==
    /\ i >= 1
    /\ i + Len(p) - 1 <= Len(s)
    /\ \A k \in 1..Len(p) : LowerChar(s[i + k - 1]) = p[k]

\* str.find from index i on (1-based; 0 when absent)
FindFrom(s, p, i) == First({k \in i..(Len(s) + 1) : MatchAt(s, k, p)})

Find(s, p) == FindFrom(s, p, 1)

Contains(s, p) == Find(s, p) # 0

\* number of characters from i on that satisfy the class
RECURSIVE DigitRun(_, _)
DigitRun(s, i) == IF i <= Len(s) /\ s[i] \in Digits THEN 1 + DigitRun(s, i + 1) ELSE 0

RECURSIVE SpaceRun(_, _)
SpaceRun(s, i) == IF i <= Len(s) /\ IsSpaceChar(s[i]) THEN 1 + SpaceRun(s, i + 1) ELSE 0

\* regex \b at the gap before s[i]
WordBoundary(s, i) ==
    LET before == i > 1 /\ i - 1 <= Len(s) /\ IsWordChar(s[i - 1])
        after == i >= 1 /\ i <= Len(s) /\ IsWordChar(s[i])
    IN  before # after

\* length matched at i by \bac\b|\bacct\b|\baccount\b (0: no match)
AcMatchLen(s, i) ==
    IF ~WordBoundary(s, i) THEN 0
    ELSE IF MatchAt(s, i, Chars("ac")) /\ WordBoundary(s, i + 2) THEN 2
    ELSE IF MatchAt(s, i, Chars("acct")) /\ WordBoundary(s, i + 4) THEN 4
    ELSE IF MatchAt(s, i, Chars("account")) /\ WordBoundary(s, i + 7) THEN 7
    ELSE 0

\* length matched at i by prefix(?=\w) for a literal prefix (0: no match)
BeforeWordMatchLen(s, i, prefix) ==
    IF /\ MatchAt(s, i, prefix)
       /\ i + Len(prefix) <= Len(s)
       /\ IsWordChar(s[i + Len(prefix)])
    THEN Len(prefix) ELSE 0

\* length matched at i by rs.(?=\w): the "." is any character but a newline
RsAnyMatchLen(s, i) ==
    IF /\ MatchAt(s, i, Chars("rs"))
       /\ i + 3 <= Len(s)
       /\ s[i + 2] # "\n"
       /\ IsWordChar(s[i + 3])
    THEN 3 ELSE 0

\* length matched at i by a combined word's regex (0: no match)
CombinedMatchLen(s, i, cw) ==
    IF ~MatchAt(s, i, cw.first) THEN 0
    ELSE LET j == i + Len(cw.first)
             run == SpaceRun(s, j)
         IN  IF cw.gap = "one"
             THEN (IF run >= 1 /\ MatchAt(s, j + 1, cw.second)
                   THEN Len(cw.first) + 1 + Len(cw.second) ELSE 0)
             ELSE (IF MatchAt(s, j + run, cw.second)
                   THEN Len(cw.first) + run + Len(cw.second) ELSE 0)

\* the patterns process_message substitutes
Literal(old) == [kind |-> "literal", old |-> old]

BracesPattern == [kind |-> "braces"]

MaskPattern == [kind |-> "mask"]

AcPattern == [kind |-> "ac"]

BeforeWord(prefix) == [kind |-> "before_word", prefix |-> prefix]

RsAnyPattern == [kind |-> "rs_any"]

Combined(cw) == [kind |-> "combined", cw |-> cw]

\* length a pattern matches at i (0: no match at i)
MatchLen(pat, s, i) ==
    CASE pat.kind = "literal" -> IF MatchAt(s, i, pat.old) THEN Len(pat.old) ELSE 0
      [] pat.kind = "braces" -> IF s[i] \in {"{", "}"} THEN 1 ELSE 0
      [] pat.kind = "mask" -> IF s[i] \in {"x", "*"} THEN 1 ELSE 0
      [] pat.kind = "ac" -> AcMatchLen(s, i)
      [] pat.kind = "before_word" -> BeforeWordMatchLen(s, i, pat.prefix)
      [] pat.kind = "rs_any" -> RsAnyMatchLen(s, i)
      [] pat.kind = "combined" -> CombinedMatchLen(s, i, pat.cw)

\* re.sub and str.replace: the matches are taken left to right without overlap
RECURSIVE SubFrom(_, _, _, _)
SubFrom(s, pat, repl, from) ==
    IF from > Len(s) THEN <<>>
    ELSE LET q == First({i \in from..Len(s) : MatchLen(pat, s, i) > 0})
         IN  IF q = 0 THEN SubSeq(s, from, Len(s))
             ELSE SubSeq(s, from, q - 1) \o repl
                  \o SubFrom(s, pat, repl, q + MatchLen(pat, s, q))

\* str.replace(old, new), old not empty
StrReplace(s, old, new) == SubFrom(s, Literal(old), new, 1)

\* str.split(" ") with the empty pieces dropped
RECURSIVE SplitFrom(_, _)
SplitFrom(s, from) ==
    IF from > Len(s) THEN <<>>
    ELSE LET start == First({i \in from..Len(s) : s[i] # " "})
             stop == First({i \in start..(Len(s) + 1) : i > Len(s) \/ s[i] = " "})
         IN  IF start = 0 THEN <<>>
             ELSE <<SubSeq(s, start, stop - 1)>> \o SplitFrom(s, stop)

SplitWords(s) == SplitFrom(s, 1)

\* " ".join(words)
RECURSIVE Join(_)
Join(words) ==
    IF words = <<>> THEN <<>>
    ELSE IF Len(words) = 1 THEN words[1]
    ELSE words[1] \o <<" ">> \o Join(Tail(words))

\* list.index (1-based; 0 when absent)
IndexOf(words, w) == First({i \in 1..Len(words) : words[i] = w})

\* str.strip()
RECURSIVE LStrip(_)
LStrip(s) == IF s # <<>> /\ IsSpaceChar(s[1]) THEN LStrip(Tail(s)) ELSE s

RECURSIVE RStrip(_)
RStrip(s) ==
    IF s # <<>> /\ IsSpaceChar(s[Len(s)]) THEN RStrip(SubSeq(s, 1, Len(s) - 1)) ELSE s

Strip(s) == RStrip(LStrip(s))

(***************************************************************************)
(* Python's int() and float() on a str                                     *)
(***************************************************************************)
\* digit ("_"? digit)* covering s[i..j]
RECURSIVE IsDigitPart(_, _, _)
IsDigitPart(s, i, j) ==
    /\ i <= j
    /\ s[i] \in Digits
    /\ \/ i = j
       \/ IsDigitPart(s, i + 1, j)
       \/ i + 1 < j /\ s[i + 1] = "_" /\ IsDigitPart(s, i + 2, j)

Unsigned(s) == IF s # <<>> /\ s[1] \in {"+", "-"} THEN Tail(s) ELSE s

\* int(s) does not raise ValueError
IsInt(s) ==
    LET u == Unsigned(Strip(s))
    IN  IsDigitPart(u, 1, Len(u))

\* digitpart ["." [digitpart]] | "." digitpart, covering s[i..j]
IsPointFloat(s, i, j) ==
    \/ IsDigitPart(s, i, j)
    \/ \E d \in i..j :
          /\ s[d] = "."
          /\ (d > i \/ d < j)
          /\ (d = i \/ IsDigitPart(s, i, d - 1))
          /\ (d = j \/ IsDigitPart(s, d + 1, j))

IsDecimalFloat(u) ==
    \/ IsPointFloat(u, 1, Len(u))
    \/ \E e \in 2..(Len(u) - 1) :
          /\ u[e] \in {"e", "E"}
          /\ IsPointFloat(u, 1, e - 1)
          /\ LET x == IF u[e + 1] \in {"+", "-"} THEN e + 2 ELSE e + 1
             IN  IsDigitPart(u, x, Len(u))

LowerStr(s) == [k \in 1..Len(s) |-> LowerChar(s[k])]

\* float(s) does not raise ValueError
IsFloat(s) ==
    LET u == Unsigned(Strip(s))
    IN  \/ LowerStr(u) \in {Chars("nan"), Chars("inf"), Chars("infinity")}
        \/ IsDecimalFloat(u)

(***************************************************************************)
(* constants.py                                                            *)
(***************************************************************************)
AVAILABLE_BALANCE_KEYWORDS ==
    << Chars("avbl bal"), Chars("available balance"), Chars("available limit"),
       Chars("available credit limit"), Chars("avbl. credit limit"),
       Chars("limit available"), Chars("a/c bal"), Chars("ac bal"),
       Chars("available bal"), Chars("avl bal"), Chars("updated balance"),
       Chars("total balance"), Chars("new balance"), Chars("bal"),
       Chars("avl lmt"), Chars("available") >>

OUTSTANDING_BALANCE_KEYWORDS == << Chars("outstanding") >>

WALLETS == << Chars("paytm"), Chars("simpl"), Chars("lazypay"), Chars("amazon_pay") >>

UPI_KEYWORDS == << Chars("upi"), Chars("ref no"), Chars("upi ref"), Chars("upi ref no") >>

\* IAccountType (a str enum)
CARD == Chars("CARD")

WALLET == Chars("WALLET")

ACCOUNT == Chars("ACCOUNT")

\* ICombinedWords: regex first\s second (gap "one"), or first\s* second (gap "any")
COMBINED_WORDS ==
    << [first |-> Chars("credit"), gap |-> "one", second |-> Chars("card"),
        word |-> Chars("c_card"), type |-> CARD],
       [first |-> Chars("amazon"), gap |-> "one", second |-> Chars("pay"),
        word |-> Chars("amazon_pay"), type |-> WALLET],
       [first |-> Chars("uni"), gap |-> "one", second |-> Chars("card"),
        word |-> Chars("uni_card"), type |-> CARD],
       [first |-> Chars("niyo"), gap |-> "one", second |-> Chars("card"),
        word |-> Chars("niyo"), type |-> ACCOUNT],
       [first |-> Chars("slice"), gap |-> "one", second |-> Chars("card"),
        word |-> Chars("slice_card"), type |-> CARD],
       [first |-> Chars("one"), gap |-> "any", second |-> Chars("card"),
        word |-> Chars("one_card"), type |-> CARD] >>

UPI_HANDLES ==
    << Chars("@BARODAMPAY"), Chars("@rbl"), Chars("@idbi"), Chars("@upi"),
       Chars("@aubank"), Chars("@axisbank"), Chars("@bandhan"), Chars("@dlb"),
       Chars("@indus"), Chars("@kbl"), Chars("@federal"), Chars("@sbi"),
       Chars("@uco"), Chars("@citi"), Chars("@citigold"), Chars("@dlb"),
       Chars("@dbs"), Chars("@freecharge"), Chars("@okhdfcbank"), Chars("@okaxis"),
       Chars("@oksbi"), Chars("@okicici"), Chars("@yesg"), Chars("@hsbc"),
       Chars("@idbi"), Chars("@icici"), Chars("@indianbank"), Chars("@allbank"),
       Chars("@kotak"), Chars("@ikwik"), Chars("@unionbankofindia"), Chars("@uboi"),
       Chars("@unionbank"), Chars("@paytm"), Chars("@ybl"), Chars("@axl"),
       Chars("@ibl"), Chars("@sib"), Chars("@yespay") >>

(***************************************************************************)
(* utils.py                                                                *)
(***************************************************************************)
\* is_number: float(val) succeeds
is_number(val) == IsFloat(val)

\* trim_leading_and_trailing_chars
trim_leading_and_trailing_chars(string) ==
    IF string = <<>> THEN <<>>
    ELSE LET first == <<string[1]>>
             last == <<string[Len(string)]>>
             final_str == IF ~is_number(last)
                          THEN SubSeq(string, 1, Len(string) - 1)
                          ELSE string
         IN  IF ~is_number(first) THEN SubSeq(final_str, 2, Len(final_str)) ELSE final_str

\* extract_bonded_account_no
extract_bonded_account_no(account_no) ==
    LET stripped_account_no == StrReplace(account_no, Chars("ac"), <<>>)
    IN  IF is_number(stripped_account_no) THEN stripped_account_no ELSE <<>>

\* the substitutions process_message applies to message.lower(), in source
\* order: <<pattern, replacement>>
Rewrites ==
    << <<Literal(Chars("!")), <<>> >>,
       <<Literal(Chars(":")), Chars(" ")>>,
       <<Literal(Chars("/")), <<>> >>,
       <<Literal(Chars("=")), Chars(" ")>>,
       <<BracesPattern, Chars(" ")>>,
       <<Literal(Chars("\n")), Chars(" ")>>,
       <<Literal(Chars("\r")), Chars(" ")>>,
       <<Literal(Chars("ending ")), <<>> >>,
       <<MaskPattern, <<>> >>,
       <<Literal(Chars("is ")), <<>> >>,
       <<Literal(Chars("with ")), <<>> >>,
       <<Literal(Chars("no. ")), <<>> >>,
       <<AcPattern, Chars("ac")>>,
       <<BeforeWord(Chars("rs")), Chars("rs. ")>>,
       <<Literal(Chars("rs ")), Chars("rs. ")>>,
       <<BeforeWord(Chars("inr")), Chars("rs. ")>>,
       <<Literal(Chars("inr ")), Chars("rs. ")>>,
       <<Literal(Chars("rs. ")), Chars("rs.")>>,
       <<RsAnyPattern, Chars("rs. ")>>,
       <<Literal(Chars("debited")), Chars(" debited ")>>,
       <<Literal(Chars("credited")), Chars(" credited ")>> >>
    \o [k \in 1..Len(COMBINED_WORDS) |->
          <<Combined(COMBINED_WORDS[k]), COMBINED_WORDS[k].word>>]

\* message_str after the substitutions from the k-th on
RECURSIVE ApplyRewrites(_, _)
ApplyRewrites(message_str, k) ==
    IF message_str = <<>> \/ k > Len(Rewrites) THEN message_str
    ELSE ApplyRewrites(SubFrom(message_str, Rewrites[k][1], Rewrites[k][2], 1), k + 1)

\* a normalisation that skips the removal of "!" and the replacement of ":"
ProcessColonKept(message) == SplitWords(ApplyRewrites(LowerStr(message), 3))

\* process_message: lower(), the substitutions, then the split on " "
process_message(message) == SplitWords(ApplyRewrites(LowerStr(message), 1))

\* get_processed_message for a str argument
get_processed_message(message) == process_message(message)

\* what a function yields when the interpreter raises ValueError
ValueError == <<"<ValueError>">>

\* pad_currency_value: unpacking more than two parts raises
pad_currency_value(val) ==
    IF val = <<>> THEN <<>>
    ELSE LET dot == Find(val, Chars("."))
         IN  IF dot = 0 THEN val \o Chars(".00")
             ELSE IF FindFrom(val, Chars("."), dot + 1) # 0 THEN ValueError
             ELSE LET lhs == SubSeq(val, 1, dot - 1)
                      rhs == SubSeq(val, dot + 1, Len(val))
                  IN  lhs \o Chars(".") \o rhs
                      \o (IF Len(rhs) = 0 THEN Chars("00")
                          ELSE IF Len(rhs) = 1 THEN Chars("0") ELSE <<>>)


(***************************************************************************)
(* models.py                                                               *)
(***************************************************************************)
IAccountInfo(type_, number, name) == [type |-> type_, number |-> number, name |-> name]

IBalance(available, outstanding) == [available |-> available, outstanding |-> outstanding]

ITransaction(type_, amount, reference_no, merchant) ==
    [type |-> type_, amount |-> amount, reference_no |-> reference_no,
     merchant |-> merchant]

\* balance is an IBalance, or NoBalance for Python's None
NoBalance == [none |-> TRUE]

ITransactionInfo(account, balance, transaction) ==
    [account |-> account, balance |-> balance, transaction |-> transaction]

(***************************************************************************)
(* account.py                                                              *)
(***************************************************************************)
\* the words of the combined words of type CARD
CardWords ==
    {COMBINED_WORDS[k].word :
       k \in {j \in DOMAIN COMBINED_WORDS : COMBINED_WORDS[j].type = CARD}}

IsCardWord(word) == word \in CardWords

\* first index of "card" or of a combined card word (0: none)
RECURSIVE CardIndexFrom(_, _)
CardIndexFrom(message, idx) ==
    IF idx > Len(message) THEN 0
    ELSE IF message[idx] = Chars("card") \/ IsCardWord(message[idx]) THEN idx
    ELSE CardIndexFrom(message, idx + 1)

\* get_card
get_card(message) ==
    LET card_index == CardIndexFrom(message, 1)
        combined_card_name ==
            IF card_index # 0 /\ message[card_index] # Chars("card")
            THEN message[card_index] ELSE <<>>
    IN  IF card_index # 0 /\ card_index + 1 <= Len(message)
        THEN LET number == message[card_index + 1]
             IN  IF IsInt(number)
                 THEN IAccountInfo(CARD, number, None)
                 ELSE IAccountInfo(IF combined_card_name # <<>> THEN CARD ELSE None,
                                   None, combined_card_name)
        ELSE IAccountInfo(None, None, None)

\* a scan in two passes: the standalone "ac" tokens first, the bonded tokens
\* only when no standalone "ac" gave a number
AcScanStandaloneFirst(processed_message, idx) ==
    LET standalone == { i \in idx..(Len(processed_message) - 1) :
                          /\ processed_message[i] = Chars("ac")
                          /\ IsInt(trim_leading_and_trailing_chars(processed_message[i + 1])) }
        bonded == { i \in idx..Len(processed_message) :
                          /\ processed_message[i] # Chars("ac")
                          /\ Contains(processed_message[i], Chars("ac"))
                          /\ extract_bonded_account_no(processed_message[i]) # <<>> }
    IN  IF standalone # {}
        THEN trim_leading_and_trailing_chars(processed_message[MinOf(standalone) + 1])
        ELSE IF bonded # {} THEN extract_bonded_account_no(processed_message[MinOf(bonded)])
        ELSE None

\* the loop of get_account over the "ac" tokens: the number found, or None
RECURSIVE AcScanFrom(_, _)
AcScanFrom(processed_message, idx) ==
    IF idx > Len(processed_message) THEN None
    ELSE LET word == processed_message[idx]
         IN  IF word = Chars("ac")
             THEN IF idx + 1 <= Len(processed_message)
                  THEN LET account_no ==
                               trim_leading_and_trailing_chars(processed_message[idx + 1])
                       IN  IF IsInt(account_no) THEN account_no
                           ELSE AcScanFrom(processed_message, idx + 1)
                  ELSE AcScanFrom(processed_message, idx + 1)
             ELSE IF Contains(word, Chars("ac"))
                  THEN LET extracted_account_no == extract_bonded_account_no(word)
                       IN  IF extracted_account_no # <<>> THEN extracted_account_no
                           ELSE AcScanFrom(processed_message, idx + 1)
                  ELSE AcScanFrom(processed_message, idx + 1)

\* a wallet scan that does not advance past its first token
WalletFirstTokenOnly(processed_message, idx) ==
    IF idx <= Len(processed_message)
       /\ \E k \in 1..Len(WALLETS) : WALLETS[k] = processed_message[idx]
    THEN processed_message[idx] ELSE None

\* first token that is a wallet name (None: none)
RECURSIVE WalletFrom(_, _)
WalletFrom(processed_message, idx) ==
    IF idx > Len(processed_message) THEN None
    ELSE IF \E k \in 1..Len(WALLETS) : WALLETS[k] = processed_message[idx]
         THEN processed_message[idx]
         ELSE WalletFrom(processed_message, idx + 1)

\* first combined word of type ACCOUNT that is a token (None: none)
RECURSIVE SpecialFrom(_, _)
SpecialFrom(processed_message, k) ==
    IF k > Len(COMBINED_WORDS) THEN None
    ELSE IF /\ COMBINED_WORDS[k].type = ACCOUNT
            /\ IndexOf(processed_message, COMBINED_WORDS[k].word) # 0
         THEN COMBINED_WORDS[k].word
         ELSE SpecialFrom(processed_message, k + 1)

\* a number left as found
MaskNoTruncation(account) == account

\* "Extract last 4 digits of account number"
mask_account_number(account) ==
    IF Truthy(account.number) /\ Len(account.number) > 4
    THEN [account EXCEPT !.number = SubSeq(account.number, Len(account.number) - 3,
                                           Len(account.number))]
    ELSE account

\* the "ac" loop and, when it found nothing, get_card
AcOrCard(processed_message) ==
    LET ac_number == AcScanFrom(processed_message, 1)
    IN  IF ac_number # None THEN IAccountInfo(ACCOUNT, ac_number, None)
        ELSE get_card(processed_message)

\* a wallet check that does not ask for an unset type
CheckWalletsUnguarded(account, processed_message) ==
    LET wallet == WalletFrom(processed_message, 1)
    IN  IF wallet # None
        THEN [account EXCEPT !.type = WALLET, !.name = wallet]
        ELSE account

\* "Check for wallets"
CheckWallets(account, processed_message) ==
    LET wallet == WalletFrom(processed_message, 1)
    IN  IF ~Truthy(account.type) /\ wallet # None
        THEN [account EXCEPT !.type = WALLET, !.name = wallet]
        ELSE account

\* "Check for special accounts"
CheckSpecial(account, processed_message) ==
    LET special == SpecialFrom(processed_message, 1)
    IN  IF ~Truthy(account.type) /\ special # None
        THEN [account EXCEPT !.type = ACCOUNT, !.name = special]
        ELSE account

\* get_account on the token list, up to the truncation of the number
AccountBeforeMask(processed_message) ==
    CheckSpecial(CheckWallets(AcOrCard(processed_message), processed_message),
                 processed_message)

\* get_account on the token list
get_account_tokens(processed_message) ==
    mask_account_number(AccountBeforeMask(processed_message))

\* get_account on a str
get_account(message) == get_account_tokens(get_processed_message(message))


(***************************************************************************)
(* balance.py                                                              *)
(***************************************************************************)
\* extract_balance: the loop from start, with the locals of the source
RECURSIVE ExtractBalanceFrom(_, _, _, _, _, _)
ExtractBalanceFrom(message, length, start, balance, saw_number, invalid_char_count) ==
    IF start > length THEN balance
    ELSE LET char == message[start]
         IN  IF char \in Digits
             THEN ExtractBalanceFrom(message, length, start + 1, Append(balance, char),
                                     TRUE, invalid_char_count)
             ELSE IF saw_number
                  THEN IF char = "."
                       THEN IF invalid_char_count = 1 THEN balance
                            ELSE ExtractBalanceFrom(message, length, start + 1,
                                                    Append(balance, char), TRUE,
                                                    invalid_char_count + 1)
                       ELSE IF char # "," THEN balance
                            ELSE ExtractBalanceFrom(message, length, start + 1, balance,
                                                    TRUE, invalid_char_count)
                  ELSE ExtractBalanceFrom(message, length, start + 1, balance,
                                          saw_number, invalid_char_count)

\* a scan that keeps every "." of the run instead of stopping at the second
ExtractBalanceEveryDot(index, message, length) ==
    LET first_digit == First({i \in index..length : message[i] \in Digits})
        stop == First({i \in first_digit..(length + 1) :
                         i > length \/ message[i] \notin Digits \cup {"."}})
    IN  IF first_digit = 0 THEN <<>> ELSE SubSeq(message, first_digit, stop - 1)

\* extract_balance(index, message, length); index is 1-based here.  Until a
\* digit is seen the loop only advances, so it is entered at the first digit.
extract_balance(index, message, length) ==
    LET first_digit == First({i \in index..length : message[i] \in Digits})
    IN  IF first_digit = 0 THEN <<>>
        ELSE ExtractBalanceFrom(message, length, first_digit, <<>>, FALSE, 0)

balance_keywords(keyword_type) ==
    IF keyword_type = "AVAILABLE" THEN AVAILABLE_BALANCE_KEYWORDS
    ELSE OUTSTANDING_BALANCE_KEYWORDS

\* a keyword used as a regex: its "." matches any character but a newline
KeywordRegexAt(s, i, kw) ==
    /\ i >= 1
    /\ i + Len(kw) - 1 <= Len(s)
    /\ \A k \in 1..Len(kw) :
          \/ kw[k] = "." /\ s[i + k - 1] # "\n"
          \/ kw[k] # "." /\ LowerChar(s[i + k - 1]) = kw[k]

\* length matched at i by ([\d]+\.[\d]+|[\d]+) (0: no match)
AmountLen(s, i) ==
    LET d1 == DigitRun(s, i)
        d2 == IF d1 > 0 /\ i + d1 <= Len(s) /\ s[i + d1] = "."
              THEN DigitRun(s, i + d1 + 1) ELSE 0
    IN  IF d2 > 0 THEN d1 + 1 + d2 ELSE d1

\* the amount of keyword\s*amount matched at i with keywords[k..] (None: no match)
RECURSIVE KeywordThenAmountAt(_, _, _, _)
KeywordThenAmountAt(s, i, keywords, k) ==
    IF k > Len(keywords) THEN None
    ELSE LET j == i + Len(keywords[k]) + SpaceRun(s, i + Len(keywords[k]))
         IN  IF KeywordRegexAt(s, i, keywords[k]) /\ AmountLen(s, j) > 0
             THEN SubSeq(s, j, j + AmountLen(s, j) - 1)
             ELSE KeywordThenAmountAt(s, i, keywords, k + 1)

\* the amount of amount\s*keyword matched at i (None: no match)
AmountThenKeywordAt(s, i, keywords) ==
    LET n == AmountLen(s, i)
        d == DigitRun(s, i)
        FollowedByKeyword(len) ==
            \E k \in 1..Len(keywords) :
                KeywordRegexAt(s, i + len + SpaceRun(s, i + len), keywords[k])
    IN  IF n > 0 /\ FollowedByKeyword(n) THEN SubSeq(s, i, i + n - 1)
        ELSE IF d > 0 /\ FollowedByKeyword(d) THEN SubSeq(s, i, i + d - 1)
        ELSE None

\* regex.findall(message)[0][1] for "Case 1": the leftmost match
Case1(s, keywords) ==
    LET i == First({k \in 1..Len(s) : KeywordThenAmountAt(s, k, keywords, 1) # None})
    IN  IF i = 0 THEN None ELSE KeywordThenAmountAt(s, i, keywords, 1)

\* regex.findall(message)[0][0] for "Case 2": the leftmost match
Case2(s, keywords) ==
    LET i == First({k \in 1..Len(s) : AmountThenKeywordAt(s, k, keywords) # None})
    IN  IF i = 0 THEN None ELSE AmountThenKeywordAt(s, i, keywords)

\* find_non_standard_balance
find_non_standard_balance(message, keyword_type) ==
    LET keywords == balance_keywords(keyword_type)
        case1 == Case1(message, keywords)
    IN  IF case1 # None THEN case1 ELSE Case2(message, keywords)

\* index just after the first keyword, in list order, that occurs (0: none)
RECURSIVE KeywordEndFrom(_, _, _)
KeywordEndFrom(message_string, keywords, k) ==
    IF k > Len(keywords) THEN 0
    ELSE IF Contains(message_string, keywords[k])
         THEN Find(message_string, keywords[k]) + Len(keywords[k])
         ELSE KeywordEndFrom(message_string, keywords, k + 1)

\* get_balance on the token list
get_balance(processed_message, keyword_type) ==
    LET message_string == Join(processed_message)
        index_of_keyword == KeywordEndFrom(message_string, balance_keywords(keyword_type), 1)
        rs == IF index_of_keyword = 0 THEN 0
              ELSE FindFrom(message_string, Chars("rs."), index_of_keyword)
    IN  IF rs = 0
        THEN LET balance == find_non_standard_balance(message_string, keyword_type)
             IN  IF Truthy(balance) THEN pad_currency_value(balance) ELSE None
        ELSE LET balance == extract_balance(rs + 2, message_string, Len(message_string))
             IN  IF Truthy(balance) THEN pad_currency_value(balance) ELSE None

(***************************************************************************)
(* engine.py                                                               *)
(***************************************************************************)
RemoveCommas(money) == StrReplace(money, Chars(","), <<>>)

\* an amount taken after the last "rs." token instead of the first
AmountLastRs(processed_message) ==
    LET positions == {i \in 1..Len(processed_message) : processed_message[i] = Chars("rs.")}
        index == IF positions = {} THEN 0
                 ELSE CHOOSE i \in positions : \A j \in positions : j <= i
    IN  IF index = 0 THEN <<>>
        ELSE IF index + 1 <= Len(processed_message)
                /\ IsFloat(RemoveCommas(processed_message[index + 1]))
        THEN pad_currency_value(RemoveCommas(processed_message[index + 1]))
        ELSE IF index + 2 <= Len(processed_message)
                /\ IsFloat(RemoveCommas(processed_message[index + 2]))
        THEN pad_currency_value(RemoveCommas(processed_message[index + 2]))
        ELSE <<>>

\* an amount returned as found, without the padding
AmountUnpadded(processed_message) ==
    LET index == IndexOf(processed_message, Chars("rs."))
    IN  IF index = 0 THEN <<>>
        ELSE IF index + 1 <= Len(processed_message)
        THEN LET money == RemoveCommas(processed_message[index + 1])
             IN  IF IsFloat(money) THEN money
                 ELSE IF index + 2 <= Len(processed_message)
                 THEN LET money2 == RemoveCommas(processed_message[index + 2])
                      IN  IF IsFloat(money2) THEN money2 ELSE <<>>
                 ELSE <<>>
        ELSE <<>>

\* get_transaction_amount on the token list
get_transaction_amount(processed_message) ==
    LET index == IndexOf(processed_message, Chars("rs."))
    IN  IF index = 0 THEN <<>>
        ELSE IF index + 1 <= Len(processed_message)
        THEN LET money == RemoveCommas(processed_message[index + 1])
             IN  IF IsFloat(money) THEN pad_currency_value(money)
                 ELSE IF index + 2 <= Len(processed_message)
                 THEN LET money2 == RemoveCommas(processed_message[index + 2])
                      IN  IF IsFloat(money2) THEN pad_currency_value(money2) ELSE <<>>
                 ELSE <<>>
        ELSE <<>>

\* regex a\s+b (gap "some") or a\sb (gap "one") found anywhere in s
ContainsGapped(s, a, gap, b) ==
    \E i \in 1..Len(s) :
        /\ MatchAt(s, i, a)
        /\ LET run == SpaceRun(s, i + Len(a))
           IN  IF gap = "one" THEN run >= 1 /\ MatchAt(s, i + Len(a) + 1, b)
               ELSE run >= 1 /\ MatchAt(s, i + Len(a) + run, b)

credit_pattern(s) ==
    \E w \in {Chars("credited"), Chars("credit"), Chars("deposited"), Chars("added"),
              Chars("received"), Chars("refund"), Chars("repayment")} : Contains(s, w)

debit_pattern(s) ==
    \E w \in {Chars("debited"), Chars("debit"), Chars("deducted")} : Contains(s, w)

misc_pattern(s) ==
    \/ \E w \in {Chars("payment"), Chars("spent"), Chars("paid"), Chars("charged"),
                 Chars("tran"), Chars("booked"), Chars("purchased")} : Contains(s, w)
    \/ ContainsGapped(s, Chars("used"), "some", Chars("at"))
    \/ ContainsGapped(s, Chars("transaction"), "one", Chars("on"))
    \/ ContainsGapped(s, Chars("transaction"), "one", Chars("fee"))
    \/ ContainsGapped(s, Chars("sent"), "some", Chars("to"))
    \/ ContainsGapped(s, Chars("purchase"), "some", Chars("of"))
    \/ ContainsGapped(s, Chars("spent"), "some", Chars("on"))

\* a classification that looks for the credit verbs first
TypeCreditFirst(message) ==
    LET message_str == LowerStr(Join(message))
    IN  IF credit_pattern(message_str) THEN Chars("credit")
        ELSE IF debit_pattern(message_str) THEN Chars("debit")
        ELSE IF misc_pattern(message_str) THEN Chars("debit")
        ELSE None

\* get_transaction_type on the token list (the patterns ignore case)
get_transaction_type(message) ==
    LET message_str == LowerStr(Join(message))
    IN  IF debit_pattern(message_str) THEN Chars("debit")
        ELSE IF misc_pattern(message_str) THEN Chars("debit")
        ELSE IF credit_pattern(message_str) THEN Chars("credit")
        ELSE None


(***************************************************************************)
(* utils.get_next_words and merchant.py                                    *)
(***************************************************************************)
\* leading run of [0-9a-zA-Z]: re.split(r"[^0-9a-zA-Z]+", text)[0]
RECURSIVE FirstWord(_)
FirstWord(text) ==
    IF text # <<>> /\ IsAlnum(text[1]) THEN <<text[1]>> \o FirstWord(Tail(text)) ELSE <<>>

\* get_next_words(source, search_word) with count = 1
get_next_words(source, search_word) ==
    LET first == Find(source, search_word)
    IN  IF first = 0 THEN <<>>
        ELSE LET from == first + Len(search_word)
                 second == FindFrom(source, search_word, from)
                 next_group == IF second = 0 THEN SubSeq(source, from, Len(source))
                               ELSE SubSeq(source, from, second - 1)
             IN  FirstWord(Strip(next_group))

\* next_str.replace("(", " ").replace(")", " ").split(" ")[0]
RECURSIVE VpaName(_)
VpaName(next_str) ==
    IF next_str # <<>> /\ next_str[1] \notin {"(", ")", " "}
    THEN <<next_str[1]>> \o VpaName(Tail(next_str)) ELSE <<>>

\* "Check for VPA": the merchant after the first step
MerchantFromVPA(processed_message) ==
    LET idx == IndexOf(processed_message, Chars("vpa"))
    IN  IF idx # 0 /\ idx < Len(processed_message)
        THEN VpaName(processed_message[idx + 1]) ELSE None

\* first keyword of UPI_KEYWORDS, in list order, found at a 0-based index > 0
RECURSIVE UpiKeywordFrom(_, _)
UpiKeywordFrom(message_string, k) ==
    IF k > Len(UPI_KEYWORDS) THEN <<>>
    ELSE IF Find(message_string, UPI_KEYWORDS[k]) > 1 THEN UPI_KEYWORDS[k]
    ELSE UpiKeywordFrom(message_string, k + 1)

\* max(re.split(r"[^0-9]", next_word) without empties, key=len): first longest run
RECURSIVE LongestNumericFrom(_, _, _)
LongestNumericFrom(next_word, i, best) ==
    IF i > Len(next_word) THEN best
    ELSE LET run == DigitRun(next_word, i)
         IN  IF run = 0 THEN LongestNumericFrom(next_word, i + 1, best)
             ELSE LongestNumericFrom(next_word, i + run,
                                     IF run > Len(best)
                                     THEN SubSeq(next_word, i, i + run - 1) ELSE best)

\* the handle, first in list order, matched ignoring case at i (<<>>: none)
HandleAt(s, i) ==
    LET k == First({h \in 1..Len(UPI_HANDLES) :
                 /\ i + Len(UPI_HANDLES[h]) - 1 <= Len(s)
                 /\ \A n \in 1..Len(UPI_HANDLES[h]) :
                        LowerChar(s[i + n - 1]) = LowerChar(UPI_HANDLES[h][n])})
    IN  IF k = 0 THEN <<>> ELSE SubSeq(s, i, i + Len(UPI_HANDLES[k]) - 1)

IsHandleNameChar(c) == IsAlnum(c) \/ c \in {"_", "-"}

\* upi_regex.findall(message_string)[0]: the group, which is the handle (<<>>: none)
UpiHandle(s) ==
    LET i == First({k \in 2..Len(s) :
                 s[k] = "@" /\ IsHandleNameChar(s[k - 1]) /\ HandleAt(s, k) # <<>>})
    IN  IF i = 0 THEN <<>> ELSE HandleAt(s, i)

\* "Check for UPI keywords": merchant and referenceNo after the second step
AfterUPI(message_string, merchant0) ==
    LET match == UpiKeywordFrom(message_string, 1)
        next_word == get_next_words(message_string, match)
        ref == IF match = <<>> THEN None
               ELSE IF is_number(next_word) THEN next_word
               ELSE IF Truthy(merchant0) /\ LongestNumericFrom(next_word, 1, <<>>) # <<>>
                    THEN LongestNumericFrom(next_word, 1, <<>>)
               ELSE None
        merchant1 == IF match # <<>> /\ ~is_number(next_word) /\ ~Truthy(merchant0)
                     THEN next_word ELSE merchant0
        merchant2 == IF match # <<>> /\ ~Truthy(merchant1)
                        /\ UpiHandle(message_string) # <<>>
                     THEN UpiHandle(message_string) ELSE merchant1
    IN  [merchant |-> merchant2, referenceNo |-> ref]

NoNewline(s, j, len) == \A n \in j..(j + len - 1) : s[n] # "\n"

\* group 1 of at\s+(.+?)\s+on\s+ matched at i: <<start, length>> candidates
AtOnCandidates(s, i) ==
    IF ~(MatchAtIgnoreCase(s, i, Chars("at")) /\ SpaceRun(s, i + 2) >= 1) THEN {}
    ELSE { c \in (1..SpaceRun(s, i + 2)) \X (1..Len(s)) :
             LET j == i + 2 + c[1]
                 e == j + c[2]
                 r == SpaceRun(s, e)
             IN  /\ e <= Len(s)
                 /\ NoNewline(s, j, c[2])
                 /\ r >= 1
                 /\ MatchAtIgnoreCase(s, e + r, Chars("on"))
                 /\ SpaceRun(s, e + r + 2) >= 1 }

\* the candidate a backtracking matcher finds first: greedy \s+, lazy group
FirstCandidate(cands) ==
    CHOOSE c \in cands :
        \A d \in cands : c[1] > d[1] \/ (c[1] = d[1] /\ c[2] <= d[2])

\* at_on_regex.search(message_string).group(1).strip() (None: no match)
AtOnSearch(s) ==
    LET i == First({k \in 1..Len(s) : AtOnCandidates(s, k) # {}})
        c == FirstCandidate(AtOnCandidates(s, i))
    IN  IF i = 0 THEN None
        ELSE Strip(SubSeq(s, i + 2 + c[1], i + 1 + c[1] + c[2]))

\* group 1 of at\s+(.+?) matched at i
AtCandidates(s, i) ==
    IF ~(MatchAtIgnoreCase(s, i, Chars("at")) /\ SpaceRun(s, i + 2) >= 1) THEN {}
    ELSE { c \in (1..SpaceRun(s, i + 2)) \X {1} :
             i + 2 + c[1] <= Len(s) /\ s[i + 2 + c[1]] # "\n" }

\* the group of at\s+(.+) taken greedily, up to the end of the string
AtSearchGreedy(s) ==
    LET i == First({k \in 1..Len(s) : AtCandidates(s, k) # {}})
        c == FirstCandidate(AtCandidates(s, i))
    IN  IF i = 0 THEN None
        ELSE Strip(SubSeq(s, i + 2 + c[1], Len(s)))

\* at_regex.search(message_string).group(1).strip() (None: no match)
AtSearch(s) ==
    LET i == First({k \in 1..Len(s) : AtCandidates(s, k) # {}})
        c == FirstCandidate(AtCandidates(s, i))
    IN  IF i = 0 THEN None
        ELSE Strip(SubSeq(s, i + 2 + c[1], i + 1 + c[1] + c[2]))

\* group 1 of on\s+(.+?)\s matched at i
OnCandidates(s, i) ==
    IF ~(MatchAtIgnoreCase(s, i, Chars("on")) /\ SpaceRun(s, i + 2) >= 1) THEN {}
    ELSE { c \in (1..SpaceRun(s, i + 2)) \X (1..Len(s)) :
             LET j == i + 2 + c[1]
                 e == j + c[2]
             IN  /\ e <= Len(s)
                 /\ NoNewline(s, j, c[2])
                 /\ IsSpaceChar(s[e]) }

\* on_regex.search(message_string).group(1).strip() (None: no match)
OnSearch(s) ==
    LET i == First({k \in 1..Len(s) : OnCandidates(s, k) # {}})
        c == FirstCandidate(OnCandidates(s, i))
    IN  IF i = 0 THEN None
        ELSE Strip(SubSeq(s, i + 2 + c[1], i + 1 + c[1] + c[2]))

\* fallbacks in which "at X on" replaces a merchant that is already set
FallbacksAtOnUnguarded(message_string, merchant) ==
    LET m1 == IF AtOnSearch(message_string) # None
              THEN AtOnSearch(message_string) ELSE merchant
        m2 == IF ~Truthy(m1) /\ AtSearch(message_string) # None
              THEN AtSearch(message_string) ELSE m1
        m3 == IF ~Truthy(m2) /\ OnSearch(message_string) # None
              THEN OnSearch(message_string) ELSE m2
    IN  m3

\* the three positional fallbacks, each tried while the merchant is falsy
MerchantFallbacks(message_string, merchant) ==
    LET m1 == IF ~Truthy(merchant) /\ AtOnSearch(message_string) # None
              THEN AtOnSearch(message_string) ELSE merchant
        m2 == IF ~Truthy(m1) /\ AtSearch(message_string) # None
              THEN AtSearch(message_string) ELSE m1
        m3 == IF ~Truthy(m2) /\ OnSearch(message_string) # None
              THEN OnSearch(message_string) ELSE m2
    IN  m3

\* extract_merchant_info on a str
extract_merchant_info(message) ==
    LET processed_message == get_processed_message(message)
        message_string == Join(processed_message)
        upi == AfterUPI(message_string, MerchantFromVPA(processed_message))
    IN  [merchant |-> MerchantFallbacks(message_string, upi.merchant),
         referenceNo |-> upi.referenceNo]


(***************************************************************************)
(* engine.get_transaction_info and models.to_dict                          *)
(***************************************************************************)
\* values of the message argument that are not a str
IntValue == <<"<int>">>

NonStrings == {None, IntValue}

\* "not message or not isinstance(message, str)"
IsEmptyInput(message) == message \in NonStrings \/ message = <<>>

\* an early return that builds an IBalance instead of passing None
EmptyWithBalanceObject ==
    ITransactionInfo(IAccountInfo(None, None, None), IBalance(None, None),
                     ITransaction(None, None, None, None))

\* the result of the early return
EmptyTransactionInfo ==
    ITransactionInfo(IAccountInfo(None, None, None), NoBalance,
                     ITransaction(None, None, None, None))

\* number of truthy values among the three signals
SignalCount(available_balance, transaction_amount, number) ==
    (IF Truthy(available_balance) THEN 1 ELSE 0)
    + (IF Truthy(transaction_amount) THEN 1 ELSE 0)
    + (IF Truthy(number) THEN 1 ELSE 0)

\* a gate that asks for one signal only
IsValidOneSignal(available_balance, transaction_amount, number) ==
    SignalCount(available_balance, transaction_amount, number) >= 1

\* is_valid: at least two signals
is_valid(available_balance, transaction_amount, number) ==
    SignalCount(available_balance, transaction_amount, number) >= 2

\* a result whose outstanding balance is extracted for every account type
InfoOutstandingAlways(processed_message, account, available_balance, transaction_amount, merchant_info) ==
    ITransactionInfo(
        account,
        IBalance(available_balance, get_balance(processed_message, "OUTSTANDING")),
        ITransaction(
            IF is_valid(available_balance, transaction_amount, account.number)
            THEN get_transaction_type(processed_message) ELSE None,
            transaction_amount, merchant_info.referenceNo, merchant_info.merchant))

\* get_transaction_info from "Get transaction type" on, given the locals
\* computed before
TransactionInfoOf(processed_message, account, available_balance, transaction_amount, merchant_info) ==
    ITransactionInfo(
        account,
        IBalance(available_balance,
                 IF account.type = CARD
                 THEN get_balance(processed_message, "OUTSTANDING") ELSE None),
        ITransaction(
            IF is_valid(available_balance, transaction_amount, account.number)
            THEN get_transaction_type(processed_message) ELSE None,
            transaction_amount, merchant_info.referenceNo, merchant_info.merchant))

\* get_transaction_info after process_message
ParseProcessed(message, processed_message) ==
    TransactionInfoOf(processed_message,
                      get_account_tokens(processed_message),
                      get_balance(processed_message, "AVAILABLE"),
                      get_transaction_amount(processed_message),
                      extract_merchant_info(message))

\* get_transaction_info
get_transaction_info(message) ==
    IF IsEmptyInput(message) THEN EmptyTransactionInfo
    ELSE ParseProcessed(message, process_message(message))

\* ITransactionInfo.to_dict, the nested dictionary flattened to dotted keys
to_dict(info) ==
    ("account.type" :> info.account.type)
    @@ ("account.number" :> info.account.number)
    @@ ("account.name" :> info.account.name)
    @@ (IF info.balance = NoBalance
        THEN ("balance" :> None)
        ELSE ("balance.available" :> info.balance.available)
             @@ ("balance.outstanding" :> info.balance.outstanding))
    @@ ("transaction.type" :> info.transaction.type)
    @@ ("transaction.amount" :> info.transaction.amount)
    @@ ("transaction.referenceNo" :> info.transaction.reference_no)
    @@ ("transaction.merchant" :> info.transaction.merchant)

(***************************************************************************)
(* sheet_manager.py: the monthly sheets of the shared workbook and the two *)
(* caches of the SheetManager                                              *)
(***************************************************************************)

\* "{month}-{year}" of two months, and one date in each of them
SheetNames == {Chars("July-2025"), Chars("August-2025")}

DateOf(sheet_name) == IF sheet_name = Chars("July-2025") THEN Chars("2025-07-01") ELSE Chars("2025-08-01")

\* cache_key = f"{sheet_name}_{date_str}"
CacheKey(sheet_name) == sheet_name \o Chars("_") \o DateOf(sheet_name)

CacheKeys == {CacheKey(sheet_name) : sheet_name \in SheetNames}

\* "< 60" and "< 120" seconds; the clock of the model advances a minute a tick
TransactionsCacheSeconds == 60

MonthlySpendsCacheSeconds == 120

TickSeconds == 60

\* a data row of a sheet (rows 2, 3, ... of the grid): the transaction it
\* holds (0: the cells A, B, D..H are empty), its Amount cell, and the row its
\* "Amount Borne by Me" formula names (0: no formula, or #REF!)
Row(id, amount, formula_row) == [id |-> id, amount |-> amount, formula_row |-> formula_row]

EmptyRow == Row(0, 0, 0)

NoSheet == [exists |-> FALSE, rows |-> <<>>]

\* a cache slot: "key in cache" is present, the value is (data, timestamp)
NoEntry == [present |-> FALSE]

Entry(data, timestamp) == [present |-> TRUE, data |-> data, timestamp |-> timestamp]

\* __init__: both caches are empty dictionaries
EmptyCaches == [monthly_spends_cache |-> [sheet_name \in SheetNames |-> NoEntry], transactions_cache |-> [key \in CacheKeys |-> NoEntry]]

\* values().get drops the empty rows at the end of the range
RECURSIVE TrimTrailing(_)
TrimTrailing(rows) == IF rows # <<>> /\ rows[Len(rows)] = EmptyRow THEN TrimTrailing(SubSeq(rows, 1, Len(rows) - 1)) ELSE rows

\* _find_vacant_row: len(values) + 1, the header row being values[0]
FindVacantRow(rows) == Len(rows) + 2

\* _prepare_row_data: the row of one transaction; the formula names the row
\* that a second _find_vacant_row call returned
PrepareRowData(id, vacant_row) == Row(id, 1, vacant_row)

\* values().update of the cells of one grid row; the rows between the data
\* and the written row stay empty
WriteRowAt(rows, row_index, row) == [i \in 1..(IF row_index - 1 > Len(rows) THEN row_index - 1 ELSE Len(rows)) |-> IF i = row_index - 1 THEN row ELSE IF i <= Len(rows) THEN rows[i] ELSE EmptyRow]

\* values().batchUpdate of the Amount cell of one grid row
UpdateAmountAt(rows, row_index, amount) == WriteRowAt(rows, row_index, IF row_index - 1 <= Len(rows) THEN [rows[row_index - 1] EXCEPT !.amount = amount] ELSE Row(0, amount, 0))

\* deleteDimension: the rows below move up and the sheet rewrites the row
\* numbers in their formulas; a formula that named the deleted row is #REF!
ShiftFormula(row, row_index) == IF row.formula_row > row_index THEN [row EXCEPT !.formula_row = row.formula_row - 1] ELSE IF row.formula_row = row_index THEN [row EXCEPT !.formula_row = 0] ELSE row

DeleteRowAt(rows, row_index) == IF row_index - 1 > Len(rows) THEN rows ELSE TrimTrailing([i \in 1..(Len(rows) - 1) |-> ShiftFormula(IF i < row_index - 1 THEN rows[i] ELSE rows[i + 1], row_index)])

\* the value of the formula =IF(AND(C{r}>0,F{r}>=0),C{r}-F{r},C{r}) with the
\* Friend Split cells at their default 0: the Amount cell of row r
AmountBorne(rows, row) == IF row.formula_row - 1 \in 1..Len(rows) THEN rows[row.formula_row - 1].amount ELSE 0

\* get_month_spends counts the rows that have a Type cell and a numeric
\* "Amount Borne by Me" cell
Counted(row) == row.id # 0 /\ row.formula_row # 0

RECURSIVE TotalSpendFrom(_, _)
TotalSpendFrom(rows, i) == IF i > Len(rows) THEN 0 ELSE (IF Counted(rows[i]) THEN AmountBorne(rows, rows[i]) ELSE 0) + TotalSpendFrom(rows, i + 1)

MonthSpends(rows) == [total_spend |-> TotalSpendFrom(rows, 1), total_transactions |-> Cardinality({i \in 1..Len(rows) : Counted(rows[i])})]

\* get_transactions_by_date keeps the rows whose Date cell is the date, with
\* their _row_index
RECURSIVE TransactionsFrom(_, _)
TransactionsFrom(rows, i) == IF i > Len(rows) THEN <<>> ELSE (IF rows[i].id # 0 THEN <<[_row_index |-> i + 1, id |-> rows[i].id, amount |-> rows[i].amount]>> ELSE <<>>) \o TransactionsFrom(rows, i + 1)

\* {"empty": ...}, {"error": ...} and the [] of a failed read
EmptyAnswer == [empty |-> TRUE]

ErrorAnswer == [error |-> TRUE]

\* _clean_up: over the memory limit both caches are cleared
CleanUp(cache, over_limit) == IF over_limit THEN EmptyCaches ELSE cache

\* _invalidate_sheet_cache
\* the keys _invalidate_sheet_cache deletes: sheet_name of
\* monthly_spends_cache, and the keys of transactions_cache it is a prefix of
RemovedKeys(cache, sheet_name) == {key \in {sheet_name} : cache.monthly_spends_cache[key].present} \cup {key \in CacheKeys : cache.transactions_cache[key].present /\ MatchAt(key, 1, sheet_name)}

InvalidateSpendsOnly(cache, sheet_name) == [cache EXCEPT !.monthly_spends_cache[sheet_name] = NoEntry]

InvalidateSheetCache(cache, sheet_name) == [monthly_spends_cache |-> [cache.monthly_spends_cache EXCEPT ![sheet_name] = NoEntry], transactions_cache |-> [key \in CacheKeys |-> IF MatchAt(key, 1, sheet_name) THEN NoEntry ELSE cache.transactions_cache[key]]]

\* no call of the SheetManager has returned yet
NoCall == [op |-> "none"]

(***************************************************************************)
(* The calls: one pending call of one function of the package              *)
(***************************************************************************)
VARIABLES
    call,       \* the function called
    message,    \* its argument
    pc,         \* "called", "normalized" (process_message only), "returned"
    info,       \* result of get_transaction_info
    account,    \* result of get_account
    tokens,     \* result of process_message
    retokens,   \* result of process_message on the joined tokens
    padded,     \* result of pad_currency_value
    threads,    \* the locals of each concurrent get_transaction_info call
    tables,     \* the module-level tables of constants.py
    http,       \* a request to the Flask application and its answer
    workbook,   \* the monthly sheets of the shared workbook
    caches,     \* monthly_spends_cache and transactions_cache of the SheetManager
    clock,      \* time.time(), in ticks of TickSeconds
    inserts,    \* the locals of each concurrent insert_transaction_data call
    last        \* the SheetManager call that returned last, and its answer

vars == <<call, message, pc, info, account, tokens, retokens, padded, threads, tables, http, workbook, caches, clock, inserts, last>>

\* the state of the SheetManager and of its workbook
sheetVars == <<workbook, caches, clock, inserts, last>>

\* the messages of the scenarios
MsgPaytm == Chars("Your Paytm wallet was debited for Rs. 299.00 for payment to NETFLIX.")

MsgEcs ==
    Chars("INR 2000 debited from A/c no. XX3423 on 05-02-19 07:27:11 IST at ECS PAY. Avl Bal- INR 2343.23.")

MsgOtp == Chars("OTP is 123456")

MsgCredited == Chars("A/c 1234 credited Rs 500")

MsgCreditedTransaction == Chars("A/c 1234 credited Rs 500 transaction")

MsgBalanceNA == Chars("Avl Bal Rs. NA on 05-02-19")

MsgAmountThenKeyword == Chars("500 available Rs.")

MsgSeparators == Chars("a:b/c=d{e}f\ng\rh")

MsgCreditCardTwoSpaces == Chars("credit  card 1234")

MsgRefNoThenUpi == Chars("paid ref no 123 upi 456")

MsgUpiHandle == Chars("paid upi 123 to shop@ybl")

MsgUpiExponent == Chars("paid upi 1e5")

MsgVpaUpi == Chars("vpa shop upi 12ab345 at y on z")

MsgVpaEmpty == Chars("vpa ( upi 123 at big on z")

MerchantScenarios == {MsgRefNoThenUpi, MsgUpiHandle, MsgUpiExponent, MsgVpaUpi, MsgVpaEmpty}

Scenarios ==
    {MsgPaytm, MsgEcs, MsgOtp, MsgCredited, MsgCreditedTransaction, MsgBalanceNA,
     MsgAmountThenKeyword, MsgSeparators, MsgCreditCardTwoSpaces}
    \cup MerchantScenarios

\* phrases of which the other messages are made
Pieces ==
    { Chars("A/c 1234567890"), Chars("ac12345"), Chars("ac1e5"), Chars("Card 123456"),
      Chars("Rs 12.345"), Chars("INR 2,000"), Chars("Avl Bal Rs. 1,211.5"),
      Chars("debited"), Chars("Paytm"), Chars("thisdebited"),
      Chars("Rs 1.2.3"), Chars("Avl Bal Rs 1.2.3"), Chars("ac"), Chars("Card"),
      Chars("vpa"), Chars("Rs."), Chars("₹500"),
      Chars("Outstanding Rs 500"), Chars("Slice Card") }

MaxPieces == 2

Messages ==
    Scenarios \cup
    { Join(ps) : ps \in UNION { [1..n -> Pieces] : n \in 1..MaxPieces } }

\* numeric strings: digits, optionally a "." and fractional digits
PadDigits == {"0", "1", "5"}

MaxIntDigits == 3

MaxFracDigits == 3

DigitStrings(lo, hi) == UNION { [1..n -> PadDigits] : n \in lo..hi }

NumericStrings ==
    DigitStrings(1, MaxIntDigits) \cup
    { l \o <<".">> \o r : l \in DigitStrings(1, MaxIntDigits),
                          r \in DigitStrings(0, MaxFracDigits) }

\* the module-level lists of constants.py, shared by every call
StaticTables ==
    [ AVAILABLE_BALANCE_KEYWORDS |-> AVAILABLE_BALANCE_KEYWORDS,
      OUTSTANDING_BALANCE_KEYWORDS |-> OUTSTANDING_BALANCE_KEYWORDS,
      WALLETS |-> WALLETS,
      UPI_KEYWORDS |-> UPI_KEYWORDS,
      COMBINED_WORDS |-> COMBINED_WORDS,
      UPI_HANDLES |-> UPI_HANDLES ]

\* no request has been received
NoRequest == [stage |-> "none"]

Unused == <<"<unused>">>

Init ==
    /\ workbook = [sheet_name \in SheetNames |-> NoSheet]
    /\ caches = EmptyCaches
    /\ clock = 0
    /\ inserts = <<>>
    /\ last = NoCall
    /\ pc = "called"
    /\ info = EmptyTransactionInfo
    /\ account = IAccountInfo(None, None, None)
    /\ tokens = <<>>
    /\ retokens = <<>>
    /\ padded = Unused
    /\ threads = <<>>
    /\ tables = StaticTables
    /\ http = NoRequest
    /\ \/ call = "get_transaction_info" /\ message \in Messages \cup NonStrings \cup {<<>>}
       \/ call = "get_account" /\ message \in Messages
       \/ call = "process_message" /\ message \in Messages
       \/ call = "pad_currency_value" /\ message \in NumericStrings

GetTransactionInfo ==
    /\ call = "get_transaction_info" /\ pc = "called"
    /\ info' = get_transaction_info(message)
    /\ pc' = "returned"
    /\ UNCHANGED <<call, message, account, tokens, retokens, padded, threads, tables, http, sheetVars>>

GetAccount ==
    /\ call = "get_account" /\ pc = "called"
    /\ account' = get_account(message)
    /\ pc' = "returned"
    /\ UNCHANGED <<call, message, info, tokens, retokens, padded, threads, tables, http, sheetVars>>

ProcessMessage ==
    /\ call = "process_message" /\ pc = "called"
    /\ tokens' = process_message(message)
    /\ pc' = "normalized"
    /\ UNCHANGED <<call, message, info, account, retokens, padded, threads, tables, http, sheetVars>>

\* process_message applied to the space-joined output of the first call
ProcessAgain ==
    /\ call = "process_message" /\ pc = "normalized"
    /\ retokens' = process_message(Join(tokens))
    /\ pc' = "returned"
    /\ UNCHANGED <<call, message, info, account, tokens, padded, threads, tables, http, sheetVars>>

PadCurrencyValue ==
    /\ call = "pad_currency_value" /\ pc = "called"
    /\ padded' = pad_currency_value(message)
    /\ pc' = "returned"
    /\ UNCHANGED <<call, message, info, account, tokens, retokens, threads, tables, http, sheetVars>>

Next ==
    \/ GetTransactionInfo
    \/ GetAccount
    \/ ProcessMessage
    \/ ProcessAgain
    \/ PadCurrencyValue

Spec == Init /\ [][Next]_vars

Returned(fn) == call = fn /\ pc = "returned"

TypeOK ==
    /\ pc \in {"called", "normalized", "returned"}
    /\ call \in {"get_transaction_info", "get_account", "process_message",
                 "pad_currency_value"}


(***************************************************************************)
(* Concurrent calls of get_transaction_info: every call runs the           *)
(* statements of the function on its own locals; the calls interleave      *)
(* statement by statement.                                                 *)
(***************************************************************************)
MaxThreads == 2

Threads == 1..MaxThreads

MsgCard == Chars("Slice Card 123456 Outstanding Rs 500")

MsgAccount == Chars("A/c 1234567890 debited Rs 12.5 at Paytm")

ConcurrentMessages == {MsgOtp, MsgCard, MsgAccount, <<>>}

\* the locals of a call that has not started
NewCall(msg) ==
    [ message |-> msg, pc |-> "start", processed_message |-> <<>>,
      account |-> IAccountInfo(None, None, None), available_balance |-> None,
      transaction_amount |-> None, transaction_type |-> None,
      balance |-> NoBalance, merchant_info |-> [merchant |-> None, referenceNo |-> None],
      result |-> Unused ]

\* a list handed to an extractor that consumes its first token
TokensConsumed(processed_message) ==
    IF processed_message = <<>> THEN <<>> ELSE Tail(processed_message)

\* the caller's token list after an extractor ran on it: get_processed_message
\* hands the list itself to the extractor, which only reads it
TokensAfterExtractor(processed_message) == processed_message

InitConcurrent ==
    /\ workbook = [sheet_name \in SheetNames |-> NoSheet]
    /\ caches = EmptyCaches
    /\ clock = 0
    /\ inserts = <<>>
    /\ last = NoCall
    /\ call = "get_transaction_info" /\ message = <<>> /\ pc = "returned"
    /\ info = EmptyTransactionInfo
    /\ account = IAccountInfo(None, None, None)
    /\ tokens = <<>>
    /\ retokens = <<>>
    /\ padded = Unused
    /\ http = NoRequest
    /\ tables = StaticTables
    /\ threads \in [Threads -> {NewCall(msg) : msg \in ConcurrentMessages}]

\* "if not message or not isinstance(message, str): return ITransactionInfo(...)"
EarlyReturn(t) ==
    /\ threads[t].pc = "start" /\ IsEmptyInput(threads[t].message)
    /\ threads' = [threads EXCEPT ![t].result = EmptyTransactionInfo, ![t].pc = "done"]
    /\ UNCHANGED <<call, message, pc, info, account, tokens, retokens, padded, tables, http, sheetVars>>

\* "processed_message = process_message(message)"
Normalize(t) ==
    /\ threads[t].pc = "start" /\ ~IsEmptyInput(threads[t].message)
    /\ threads' = [threads EXCEPT ![t].processed_message = process_message(threads[t].message),
                                  ![t].pc = "account"]
    /\ UNCHANGED <<call, message, pc, info, account, tokens, retokens, padded, tables, http, sheetVars>>

\* "account = get_account(processed_message)"
ExtractAccount(t) ==
    /\ threads[t].pc = "account"
    /\ threads' = [threads EXCEPT ![t].account = get_account_tokens(threads[t].processed_message),
                                  ![t].processed_message = TokensAfterExtractor(@),
                                  ![t].pc = "available"]
    /\ UNCHANGED <<call, message, pc, info, account, tokens, retokens, padded, tables, http, sheetVars>>

\* "available_balance = get_balance(processed_message, AVAILABLE)"
ExtractAvailable(t) ==
    /\ threads[t].pc = "available"
    /\ threads' = [threads EXCEPT ![t].available_balance = get_balance(threads[t].processed_message, "AVAILABLE"),
                                  ![t].processed_message = TokensAfterExtractor(@),
                                  ![t].pc = "amount"]
    /\ UNCHANGED <<call, message, pc, info, account, tokens, retokens, padded, tables, http, sheetVars>>

\* "transaction_amount = get_transaction_amount(processed_message)"
ExtractAmount(t) ==
    /\ threads[t].pc = "amount"
    /\ threads' = [threads EXCEPT ![t].transaction_amount = get_transaction_amount(threads[t].processed_message),
                                  ![t].processed_message = TokensAfterExtractor(@),
                                  ![t].pc = "type"]
    /\ UNCHANGED <<call, message, pc, info, account, tokens, retokens, padded, tables, http, sheetVars>>

\* "transaction_type = get_transaction_type(processed_message) if is_valid else None"
\* and "balance = IBalance(available=available_balance, outstanding=None)"
ExtractType(t) ==
    /\ threads[t].pc = "type"
    /\ threads' = [threads EXCEPT ![t].transaction_type =
                                      IF is_valid(threads[t].available_balance, threads[t].transaction_amount, threads[t].account.number)
                                      THEN get_transaction_type(threads[t].processed_message) ELSE None,
                                  ![t].balance = IBalance(threads[t].available_balance, None),
                                  ![t].processed_message = TokensAfterExtractor(@),
                                  ![t].pc = "outstanding"]
    /\ UNCHANGED <<call, message, pc, info, account, tokens, retokens, padded, tables, http, sheetVars>>

\* "if account and account.type == IAccountType.CARD: balance.outstanding = ..."
ExtractOutstanding(t) ==
    /\ threads[t].pc = "outstanding"
    /\ threads' = [threads EXCEPT ![t].balance.outstanding =
                                      IF threads[t].account.type = CARD
                                      THEN get_balance(threads[t].processed_message, "OUTSTANDING") ELSE None,
                                  ![t].processed_message = TokensAfterExtractor(@),
                                  ![t].pc = "merchant"]
    /\ UNCHANGED <<call, message, pc, info, account, tokens, retokens, padded, tables, http, sheetVars>>

\* "merchant_info = extract_merchant_info(message)"
ExtractMerchant(t) ==
    /\ threads[t].pc = "merchant"
    /\ threads' = [threads EXCEPT ![t].merchant_info = extract_merchant_info(threads[t].message),
                                  ![t].pc = "return"]
    /\ UNCHANGED <<call, message, pc, info, account, tokens, retokens, padded, tables, http, sheetVars>>

\* "return ITransactionInfo(account=..., balance=..., transaction=...)"
Return(t) ==
    /\ threads[t].pc = "return"
    /\ threads' = [threads EXCEPT ![t].result =
                                      ITransactionInfo(threads[t].account, threads[t].balance,
                                          ITransaction(threads[t].transaction_type, threads[t].transaction_amount,
                                                       threads[t].merchant_info.referenceNo,
                                                       threads[t].merchant_info.merchant)),
                                  ![t].pc = "done"]
    /\ UNCHANGED <<call, message, pc, info, account, tokens, retokens, padded, tables, http, sheetVars>>

NextConcurrent ==
    \E t \in Threads :
        \/ EarlyReturn(t)
        \/ Normalize(t)
        \/ ExtractAccount(t)
        \/ ExtractAvailable(t)
        \/ ExtractAmount(t)
        \/ ExtractType(t)
        \/ ExtractOutstanding(t)
        \/ ExtractMerchant(t)
        \/ Return(t)

SpecConcurrent == InitConcurrent /\ [][NextConcurrent]_vars


(***************************************************************************)
(* app.py: the before_request hook that authenticates API requests, and    *)
(* the dispatch to a route handler that follows it                         *)
(***************************************************************************)
\* AppConfig.API_PREFIX with the default API_VERSION
API_PREFIX == Chars("/api/v1")

\* the view function of each literal route
Routes ==
    [ path : {Chars("/health")}, handler : {Chars("health_check")} ] \cup
    [ path : {Chars("/api/v1/parse-sms")}, handler : {Chars("test_parser")} ] \cup
    [ path : {Chars("/api/v1/transactions")}, handler : {Chars("log_sms_transaction")} ]

RequestPaths ==
    { r.path : r \in Routes } \cup { Chars("/api/v1/nothing"), Chars("/api/v1x"), Chars("/") }

\* os.environ.get("API_KEY"): unset, empty or a key
ConfiguredKeys == {None, <<>>, Chars("k1")}

\* request.headers.get("X-API-KEY"): missing, empty or a value
ProvidedKeys == {None, <<>>, Chars("k1"), Chars("k2"), Chars("K1")}

\* the hook lets the request pass (it returns None)
Pass == [status |-> 0, error |-> None]

\* a hook that compares keys only when the header is present
AuthenticateMissingHeaderPasses(api_key, path, provided_key) ==
    IF ~MatchAt(path, 1, API_PREFIX) THEN Pass
    ELSE IF ~Truthy(api_key) THEN [status |-> 500, error |-> Chars("Authentication not configured")]
    ELSE IF ~Truthy(provided_key) THEN Pass
    ELSE IF provided_key # api_key THEN [status |-> 403, error |-> Chars("Authentication failed")]
    ELSE Pass

\* authenticate_api_request: the response it returns, or Pass
authenticate_api_request(api_key, path, provided_key) ==
    IF ~MatchAt(path, 1, API_PREFIX) THEN Pass
    ELSE IF ~Truthy(api_key) THEN [status |-> 500, error |-> Chars("Authentication not configured")]
    ELSE IF ~Truthy(provided_key) THEN [status |-> 403, error |-> Chars("Authentication required")]
    ELSE IF provided_key # api_key THEN [status |-> 403, error |-> Chars("Authentication failed")]
    ELSE Pass

\* a request has arrived; it uses a method its route accepts
InitApi ==
    /\ workbook = [sheet_name \in SheetNames |-> NoSheet]
    /\ caches = EmptyCaches
    /\ clock = 0
    /\ inserts = <<>>
    /\ last = NoCall
    /\ call = "get_transaction_info" /\ message = <<>> /\ pc = "returned"
    /\ info = EmptyTransactionInfo
    /\ account = IAccountInfo(None, None, None)
    /\ tokens = <<>>
    /\ retokens = <<>>
    /\ padded = Unused
    /\ threads = <<>>
    /\ tables = StaticTables
    /\ http \in [ stage : {"received"}, api_key : ConfiguredKeys, path : RequestPaths,
                  provided_key : ProvidedKeys, status : {0}, error : {None}, handler : {None} ]

\* the hook answers the request itself
Reject ==
    /\ http.stage = "received"
    /\ authenticate_api_request(http.api_key, http.path, http.provided_key) # Pass
    /\ http' = [http EXCEPT !.stage = "responded",
                            !.status = authenticate_api_request(http.api_key, http.path, http.provided_key).status,
                            !.error = authenticate_api_request(http.api_key, http.path, http.provided_key).error]
    /\ UNCHANGED <<call, message, pc, info, account, tokens, retokens, padded, threads, tables, sheetVars>>

\* the hook returns None and the request goes on to the dispatch
Authenticated ==
    /\ http.stage = "received"
    /\ authenticate_api_request(http.api_key, http.path, http.provided_key) = Pass
    /\ http' = [http EXCEPT !.stage = "authenticated"]
    /\ UNCHANGED <<call, message, pc, info, account, tokens, retokens, padded, threads, tables, sheetVars>>

\* the view function of the matching route runs
RunHandler ==
    /\ http.stage = "authenticated"
    /\ \E r \in Routes :
        /\ r.path = http.path
        /\ http' = [http EXCEPT !.stage = "responded", !.handler = r.handler]
    /\ UNCHANGED <<call, message, pc, info, account, tokens, retokens, padded, threads, tables, sheetVars>>

\* no route matches: the 404 error handler answers
NotFound ==
    /\ http.stage = "authenticated"
    /\ \A r \in Routes : r.path # http.path
    /\ http' = [http EXCEPT !.stage = "responded", !.status = 404, !.error = Chars("Not found")]
    /\ UNCHANGED <<call, message, pc, info, account, tokens, retokens, padded, threads, tables, sheetVars>>

NextApi ==
    \/ Reject
    \/ Authenticated
    \/ RunHandler
    \/ NotFound

SpecApi == InitApi /\ [][NextApi]_vars


(***************************************************************************)
(* sheet_manager.py: the calls of the one SheetManager of app.py, one at a *)
(* time; a call to the Sheets API may raise                                *)
(***************************************************************************)
MaxRows == 2

MaxTicks == 2

\* the rest of the program does not run
ParserIdle ==
    /\ call = "get_transaction_info" /\ message = <<>> /\ pc = "returned"
    /\ info = EmptyTransactionInfo
    /\ account = IAccountInfo(None, None, None)
    /\ tokens = <<>>
    /\ retokens = <<>>
    /\ padded = Unused
    /\ threads = <<>>
    /\ tables = StaticTables
    /\ http = NoRequest

parserVars == <<call, message, pc, info, account, tokens, retokens, padded, threads, tables, http>>

\* __init__: no monthly sheet exists yet
InitSheets ==
    /\ ParserIdle
    /\ workbook = [sheet_name \in SheetNames |-> NoSheet]
    /\ caches = EmptyCaches
    /\ clock = 0
    /\ inserts = <<>>
    /\ last = NoCall

\* time passes between two calls
Tick ==
    /\ clock < MaxTicks
    /\ clock' = clock + 1
    /\ UNCHANGED <<parserVars, workbook, caches, inserts, last>>

\* what a call answered, where a read took it from, and the cache keys an
\* invalidation deleted (its debug log names them)
Answer(op, sheet_name, result, source, removed) == [op |-> op, sheet |-> sheet_name, result |-> result, source |-> source, removed |-> removed]

\* the rows after a whole insert_transaction_data call: with no other call
\* in between, both _find_vacant_row calls read the same rows
InsertedRows(rows, id) == WriteRowAt(rows, FindVacantRow(rows), PrepareRowData(id, FindVacantRow(rows)))

InsertTransactionData(sheet_name) ==
    \E over_limit \in BOOLEAN, outcome \in {"create raises", "update raises", "written"} :
        /\ Len(workbook[sheet_name].rows) < MaxRows
        /\ caches' = CleanUp(caches, over_limit)
        /\ workbook' = IF outcome = "create raises" THEN workbook
                       ELSE IF outcome = "update raises" THEN [workbook EXCEPT ![sheet_name].exists = TRUE]
                       ELSE [workbook EXCEPT ![sheet_name] = [exists |-> TRUE, rows |-> InsertedRows(workbook[sheet_name].rows, 1)]]
        /\ last' = Answer("insert_transaction_data", sheet_name, outcome = "written", "none", {})
        /\ UNCHANGED <<parserVars, clock, inserts>>

MonthSpendsCached(cache, sheet_name, now) == cache.monthly_spends_cache[sheet_name].present /\ (now - cache.monthly_spends_cache[sheet_name].timestamp) * TickSeconds < MonthlySpendsCacheSeconds

GetMonthSpends(sheet_name) ==
    \E over_limit \in BOOLEAN, raises \in BOOLEAN :
        /\ IF MonthSpendsCached(CleanUp(caches, over_limit), sheet_name, clock)
           THEN /\ caches' = CleanUp(caches, over_limit)
                /\ last' = Answer("get_month_spends", sheet_name, caches.monthly_spends_cache[sheet_name].data, "cache", {})
           ELSE IF ~workbook[sheet_name].exists
           THEN /\ caches' = CleanUp(caches, over_limit)
                /\ last' = Answer("get_month_spends", sheet_name, EmptyAnswer, "none", {})
           ELSE IF raises
           THEN /\ caches' = CleanUp(caches, over_limit)
                /\ last' = Answer("get_month_spends", sheet_name, ErrorAnswer, "none", {})
           ELSE /\ caches' = [CleanUp(caches, over_limit) EXCEPT !.monthly_spends_cache[sheet_name] = Entry(MonthSpends(workbook[sheet_name].rows), clock)]
                /\ last' = Answer("get_month_spends", sheet_name, MonthSpends(workbook[sheet_name].rows), "sheet", {})
        /\ UNCHANGED <<parserVars, workbook, clock, inserts>>

TransactionsCached(cache, sheet_name, now) == cache.transactions_cache[CacheKey(sheet_name)].present /\ (now - cache.transactions_cache[CacheKey(sheet_name)].timestamp) * TickSeconds < TransactionsCacheSeconds

GetTransactionsByDate(sheet_name) ==
    \E over_limit \in BOOLEAN, raises \in BOOLEAN :
        /\ IF ~workbook[sheet_name].exists
           THEN /\ caches' = CleanUp(caches, over_limit)
                /\ last' = Answer("get_transactions_by_date", sheet_name, <<>>, "none", {})
           ELSE IF TransactionsCached(CleanUp(caches, over_limit), sheet_name, clock)
           THEN /\ caches' = CleanUp(caches, over_limit)
                /\ last' = Answer("get_transactions_by_date", sheet_name, caches.transactions_cache[CacheKey(sheet_name)].data, "cache", {})
           ELSE IF raises
           THEN /\ caches' = CleanUp(caches, over_limit)
                /\ last' = Answer("get_transactions_by_date", sheet_name, <<>>, "none", {})
           ELSE /\ caches' = [CleanUp(caches, over_limit) EXCEPT !.transactions_cache[CacheKey(sheet_name)] = Entry(TransactionsFrom(workbook[sheet_name].rows, 1), clock)]
                /\ last' = Answer("get_transactions_by_date", sheet_name, TransactionsFrom(workbook[sheet_name].rows, 1), "sheet", {})
        /\ UNCHANGED <<parserVars, workbook, clock, inserts>>

\* the checks of update_transaction_fields and delete_transaction_row that
\* return False before the sheet is written
Refused(sheet_name, row_index) == ~workbook[sheet_name].exists \/ row_index < 2

UpdateTransactionFields(sheet_name, row_index) ==
    \E valid_fields \in BOOLEAN, raises \in BOOLEAN :
        /\ IF Refused(sheet_name, row_index) \/ ~valid_fields \/ raises
           THEN /\ UNCHANGED <<workbook, caches>>
                /\ last' = Answer("update_transaction_fields", sheet_name, FALSE, "none", {})
           ELSE /\ workbook' = [workbook EXCEPT ![sheet_name].rows = UpdateAmountAt(@, row_index, 2)]
                /\ caches' = InvalidateSheetCache(caches, sheet_name)
                /\ last' = Answer("update_transaction_fields", sheet_name, TRUE, "none", RemovedKeys(caches, sheet_name))
        /\ UNCHANGED <<parserVars, clock, inserts>>

DeleteTransactionRow(sheet_name, row_index) ==
    \E raises \in BOOLEAN :
        /\ IF Refused(sheet_name, row_index) \/ raises
           THEN /\ UNCHANGED <<workbook, caches>>
                /\ last' = Answer("delete_transaction_row", sheet_name, FALSE, "none", {})
           ELSE /\ workbook' = [workbook EXCEPT ![sheet_name].rows = DeleteRowAt(@, row_index)]
                /\ caches' = InvalidateSheetCache(caches, sheet_name)
                /\ last' = Answer("delete_transaction_row", sheet_name, TRUE, "none", RemovedKeys(caches, sheet_name))
        /\ UNCHANGED <<parserVars, clock, inserts>>

\* the month the transactions are in; the other month is only read
WrittenSheets == {Chars("July-2025")}

NextSheets ==
    \/ Tick
    \/ \E sheet_name \in WrittenSheets : InsertTransactionData(sheet_name)
    \/ \E sheet_name \in SheetNames : GetMonthSpends(sheet_name)
    \/ \E sheet_name \in SheetNames : GetTransactionsByDate(sheet_name)
    \/ \E sheet_name \in WrittenSheets, row_index \in 1..(MaxRows + 1) : UpdateTransactionFields(sheet_name, row_index)
    \/ \E sheet_name \in WrittenSheets, row_index \in 1..(MaxRows + 1) : DeleteTransactionRow(sheet_name, row_index)

SpecSheets == InitSheets /\ [][NextSheets]_vars


(***************************************************************************)
(* sheet_manager.py: concurrent insert_transaction_data calls on the one   *)
(* SheetManager, for transactions of the same month; the server threads    *)
(* interleave at the calls to the Sheets API                               *)
(***************************************************************************)
InsertSheet == Chars("July-2025")

\* a row that was in the sheet before the calls
EarlierRow == Row(MaxThreads + 1, 1, 2)

NewInsert == [pc |-> "called", exists |-> FALSE, vacant_row |-> 0, row_data |-> EmptyRow, result |-> FALSE]

InitInserts ==
    /\ ParserIdle
    /\ workbook \in {[sheet_name \in SheetNames |-> IF sheet_name = InsertSheet THEN sheet ELSE NoSheet] : sheet \in {NoSheet, [exists |-> TRUE, rows |-> <<>>], [exists |-> TRUE, rows |-> <<EarlierRow>>]}}
    /\ caches = EmptyCaches
    /\ clock = 0
    /\ inserts = [t \in Threads |-> NewInsert]
    /\ last = NoCall

\* "self._clean_up()" and, in get_or_create_monthly_sheet, "if
\* self._sheet_exists(sheet_name)"; _sheet_exists answers False when its read
\* raises
SheetExists(t) ==
    \E over_limit \in BOOLEAN, read_raises \in BOOLEAN :
        /\ inserts[t].pc = "called"
        /\ caches' = CleanUp(caches, over_limit)
        /\ inserts' = [inserts EXCEPT ![t].pc = "checked", ![t].exists = ~read_raises /\ workbook[InsertSheet].exists]
        /\ UNCHANGED <<parserVars, workbook, clock, last>>

\* "sheet_id = self._create_new_sheet(sheet_name)": the sheet is added with
\* its header row unless it is there by now; an exception leaves the call
\* through "except Exception: return False"
CreateNewSheet(t) ==
    \E raises \in BOOLEAN :
        /\ inserts[t].pc = "checked"
        /\ IF raises /\ ~inserts[t].exists
           THEN /\ inserts' = [inserts EXCEPT ![t].pc = "returned", ![t].result = FALSE]
                /\ UNCHANGED workbook
           ELSE /\ inserts' = [inserts EXCEPT ![t].pc = "sheet ready"]
                /\ workbook' = [workbook EXCEPT ![InsertSheet].exists = TRUE]
        /\ UNCHANGED <<parserVars, caches, clock, last>>

\* "vacant_row = self._find_vacant_row(sheet_name)"; the function answers 2
\* when its read raises
FindVacant(t) ==
    \E read_raises \in BOOLEAN :
        /\ inserts[t].pc = "sheet ready"
        /\ inserts' = [inserts EXCEPT ![t].pc = "row found", ![t].vacant_row = IF read_raises THEN 2 ELSE FindVacantRow(workbook[InsertSheet].rows)]
        /\ UNCHANGED <<parserVars, workbook, caches, clock, last>>

\* "row_data = self._prepare_row_data(...)", which reads the vacant row again
PrepareRow(t) ==
    \E read_raises \in BOOLEAN :
        /\ inserts[t].pc = "row found"
        /\ inserts' = [inserts EXCEPT ![t].pc = "row prepared", ![t].row_data = PrepareRowData(t, IF read_raises THEN 2 ELSE FindVacantRow(workbook[InsertSheet].rows))]
        /\ UNCHANGED <<parserVars, workbook, caches, clock, last>>

\* "values().update(range=A{vacant_row}:H{vacant_row}).execute()" and
\* "return True", or the exception of the update and "return False"
UpdateValues(t) ==
    \E raises \in BOOLEAN :
        /\ inserts[t].pc = "row prepared"
        /\ inserts' = [inserts EXCEPT ![t].pc = "returned", ![t].result = ~raises]
        /\ workbook' = IF raises THEN workbook ELSE [workbook EXCEPT ![InsertSheet].rows = WriteRowAt(@, inserts[t].vacant_row, inserts[t].row_data)]
        /\ UNCHANGED <<parserVars, caches, clock, last>>

NextInserts ==
    \/ \E t \in Threads : SheetExists(t)
    \/ \E t \in Threads : CreateNewSheet(t)
    \/ \E t \in Threads : FindVacant(t)
    \/ \E t \in Threads : PrepareRow(t)
    \/ \E t \in Threads : UpdateValues(t)

SpecInserts == InitInserts /\ [][NextInserts]_vars


(***************************************************************************)
(* Properties                                                              *)
(***************************************************************************)
Parsed == Returned("get_transaction_info") /\ ~IsEmptyInput(message)

\* C1: whenever fewer than two of balance.available, transaction.amount and
\* account.number are non-empty, get_transaction_info leaves transaction.type
\* unset, whatever verbs the text contains; "OTP is 123456" yields no type.
C1_SufficiencyGate ==
    /\ Parsed =>
         (SignalCount(info.balance.available, info.transaction.amount,
                      info.account.number) < 2
            => info.transaction.type = None)
    /\ Returned("get_transaction_info") /\ message = MsgOtp
         => info.transaction.type = None

\* a debit verb is in the text, one signal only was found, and the type is unset
C1_Witness ==
    /\ Parsed
    /\ get_transaction_type(process_message(message)) = Chars("debit")
    /\ SignalCount(info.balance.available, info.transaction.amount,
                   info.account.number) = 1
    /\ info.transaction.type = None

\* C2 (as claimed): the Paytm message yields account.type WALLET, account.name
\* "paytm", transaction.amount "299.00" and transaction.type "debit".
C2_PaytmAsClaimed ==
    Returned("get_transaction_info") /\ message = MsgPaytm =>
        /\ info.account.type = WALLET
        /\ info.account.name = Chars("paytm")
        /\ info.transaction.amount = Chars("299.00")
        /\ info.transaction.type = Chars("debit")

\* C2 (amended): the Paytm message yields account.type WALLET, account.name
\* "paytm", transaction.amount "299.00" and, the amount being the only signal of
\* the three the gate counts, an unset transaction.type.
C2_PaytmScenario ==
    Returned("get_transaction_info") /\ message = MsgPaytm =>
        /\ info.account.type = WALLET
        /\ info.account.name = Chars("paytm")
        /\ info.account.number = None
        /\ info.balance.available = None
        /\ info.transaction.amount = Chars("299.00")
        /\ info.transaction.type = None

C2_Witness ==
    /\ Returned("get_transaction_info")
    /\ message = MsgPaytm
    /\ info.account.type = WALLET
    /\ get_transaction_type(process_message(message)) = Chars("debit")

\* C3 (as claimed): for the ECS PAY message the merchant is produced by the
\* "at X on" fallback and equals "ecs pay.".
C3_EcsMerchantAsClaimed ==
    Returned("get_transaction_info") /\ message = MsgEcs =>
        /\ AtOnSearch(Join(process_message(message))) # None
        /\ info.transaction.merchant = Chars("ecs pay.")

\* C3 (amended): for the ECS PAY message the "at X on" pattern finds nothing,
\* no " on " following the "at", and the merchant is produced by the "at X"
\* fallback, whose lazy group takes one character: the merchant equals "e".
C3_EcsMerchant ==
    Returned("get_transaction_info") /\ message = MsgEcs =>
        LET message_string == Join(process_message(message))
        IN  /\ AtOnSearch(message_string) = None
            /\ AtSearch(message_string) = Chars("e")
            /\ info.transaction.merchant = Chars("e")

\* no UPI step set a merchant, "at ecs pay." is in the normalized text and the
\* fallbacks produced the merchant
C3_Witness ==
    /\ Returned("get_transaction_info")
    /\ message = MsgEcs
    /\ LET processed_message == process_message(message)
           message_string == Join(processed_message)
       IN  /\ ~Truthy(AfterUPI(message_string,
                               MerchantFromVPA(processed_message)).merchant)
           /\ Contains(message_string, Chars(" at ecs pay."))
    /\ Truthy(info.transaction.merchant)

\* C4: the ECS PAY message yields account.type ACCOUNT, account.number "3423",
\* transaction.amount "2000.00", transaction.type "debit" and
\* balance.available "2343.23".
C4_EcsScenario ==
    Returned("get_transaction_info") /\ message = MsgEcs =>
        /\ info.account.type = ACCOUNT
        /\ info.account.number = Chars("3423")
        /\ info.transaction.amount = Chars("2000.00")
        /\ info.transaction.type = Chars("debit")
        /\ info.balance.available = Chars("2343.23")

C4_Witness ==
    /\ Returned("get_transaction_info")
    /\ message = MsgEcs
    /\ process_message(message)[1] = Chars("rs.")
    /\ info.balance.available # None

\* <one or more digits>.<exactly two digits>
IsTwoDecimal(v) ==
    /\ Len(v) >= 4
    /\ v[Len(v) - 2] = "."
    /\ AllDigits(SubSeq(v, 1, Len(v) - 3))
    /\ AllDigits(SubSeq(v, Len(v) - 1, Len(v)))

\* ends in exactly two digits after a "."
EndsInTwoDecimals(v) ==
    /\ Len(v) >= 3
    /\ v[Len(v) - 2] = "."
    /\ AllDigits(SubSeq(v, Len(v) - 1, Len(v)))

\* C5: for every numeric string n (digits, an optional single "." and any
\* number of fractional digits) pad_currency_value(n) ends in exactly two digits
\* after a "."; pad("100") = "100.00", pad("100.5") = "100.50" and
\* pad("100.50") = "100.50".
C5_PadTwoDecimals ==
    Returned("pad_currency_value") =>
        /\ EndsInTwoDecimals(padded)
        /\ message = Chars("100") => padded = Chars("100.00")
        /\ message = Chars("100.5") => padded = Chars("100.50")
        /\ message = Chars("100.50") => padded = Chars("100.50")

\* C6: in every result of get_transaction_info each non-empty one of
\* balance.available, balance.outstanding and transaction.amount has the form
\* <digits>.<two digits>.
C6_TwoDecimalFields ==
    Parsed =>
        \A v \in {info.balance.available, info.balance.outstanding,
                  info.transaction.amount} : Truthy(v) => IsTwoDecimal(v)

Last4(number) ==
    IF Len(number) > 4 THEN SubSeq(number, Len(number) - 3, Len(number)) ELSE number

\* C7: after get_account a set account.number has at most 4 characters: a
\* candidate longer than 4 characters, from the explicit "ac" step, the bonded
\* "ac" step or the card step, is replaced by its last 4 characters
\* ("1234567890" becomes "7890").
C7_Masking ==
    /\ Returned("get_account") =>
         LET candidate == AccountBeforeMask(process_message(message)).number
         IN  /\ Truthy(account.number) => Len(account.number) <= 4
             /\ Truthy(candidate) => account.number = Last4(candidate)
             /\ message = Chars("A/c 1234567890") => account.number = Chars("7890")
             /\ message = Chars("ac12345") => account.number = Chars("2345")
             /\ message = Chars("Card 123456") => account.number = Chars("3456")
    /\ Parsed => (Truthy(info.account.number) => Len(info.account.number) <= 4)

C7_Witness ==
    /\ Returned("get_account")
    /\ AccountBeforeMask(process_message(message)).number = Chars("1234567890")
    /\ account.number = Chars("7890")

\* C8: a set account.number returned by get_account consists of decimal digits
\* only, whichever step set it.
C8_DigitsOnly ==
    Returned("get_account") /\ Truthy(account.number) => AllDigits(account.number)

\* C9: process_message applied to the space-joined output of
\* process_message(m) returns the same token sequence as process_message(m).
C9_Idempotent ==
    Returned("process_message") => retokens = tokens

NineFields ==
    {"account.type", "account.number", "account.name", "balance.available",
     "balance.outstanding", "transaction.type", "transaction.amount",
     "transaction.referenceNo", "transaction.merchant"}

\* C10 (as claimed): for an empty string or a non-string value the dictionary
\* form of the result contains all nine output fields, each unset.
C10_NineFieldsAsClaimed ==
    Returned("get_transaction_info") /\ IsEmptyInput(message) =>
        /\ NineFields \subseteq DOMAIN to_dict(info)
        /\ \A f \in NineFields : to_dict(info)[f] = None

\* C10 (amended): for an empty string or a non-string value the dictionary form
\* of the result holds the three account fields and the four transaction fields,
\* each unset, and an unset "balance" in place of balance.available and
\* balance.outstanding, which it does not contain.
C10_EmptyInput ==
    Returned("get_transaction_info") /\ IsEmptyInput(message) =>
        /\ DOMAIN to_dict(info) =
             (NineFields \ {"balance.available", "balance.outstanding"}) \cup {"balance"}
        /\ \A f \in DOMAIN to_dict(info) : to_dict(info)[f] = None

C10_Witness ==
    /\ Returned("get_transaction_info")
    /\ message \in NonStrings
    /\ info.balance = NoBalance

\* the fields of a result of get_transaction_info that hold text
TextFields(result) ==
    {result.account.number, result.account.name, result.transaction.amount,
     result.transaction.reference_no, result.transaction.merchant}
    \cup (IF result.balance = NoBalance THEN {}
          ELSE {result.balance.available, result.balance.outstanding})

\* C11: for every input string get_transaction_info returns a result and no
\* ValueError escapes: no field holds the outcome of a raise, and a token after
\* "rs." that float() rejects leaves transaction.amount empty.
C11_NoRaise ==
    Returned("get_transaction_info") =>
        /\ ValueError \notin TextFields(info)
        /\ info.transaction.type \in {None, Chars("debit"), Chars("credit")}
        /\ info.account.type \in {None, CARD, WALLET, ACCOUNT}
        /\ Parsed /\ get_transaction_amount(process_message(message)) = <<>>
             => ~Truthy(info.transaction.amount)

\* "1.2.3" follows "rs." and also a balance keyword: the amount stays empty
\* and the balance is cut at the second "."
C11_Witness ==
    /\ Parsed
    /\ Contains(Join(process_message(message)), Chars("bal rs. 1.2.3"))
    /\ info.transaction.amount = <<>>
    /\ info.balance.available = Chars("1.20")

\* C12: in every result of get_transaction_info balance.outstanding is
\* non-empty only if account.type is CARD: for ACCOUNT, WALLET or an unset type
\* it is never extracted, also when the text holds "outstanding" and an amount;
\* for a card it is ("Card 123456 Outstanding Rs 500" gives "500.00").
C12_OutstandingOnlyForCard ==
    /\ Parsed =>
         /\ Truthy(info.balance.outstanding) => info.account.type = CARD
         /\ info.account.type # CARD => info.balance.outstanding = None
    /\ Returned("get_transaction_info")
       /\ message = Chars("Card 123456 Outstanding Rs 500")
         => info.account.type = CARD /\ info.balance.outstanding = Chars("500.00")

\* an account of type ACCOUNT whose text holds an outstanding amount that
\* get_balance would extract
C12_Witness ==
    /\ Parsed
    /\ info.account.type = ACCOUNT
    /\ get_balance(process_message(message), "OUTSTANDING") = Chars("500.00")
    /\ info.balance.outstanding = None

\* C13: in every result of get_account at most one of account.number and
\* account.name is non-empty; a non-empty number implies type CARD or ACCOUNT;
\* type WALLET implies an unset number and a name of the wallet list; an unset
\* type implies that number and name are both empty.
C13_AccountShape ==
    Returned("get_account") =>
        /\ ~(Truthy(account.number) /\ Truthy(account.name))
        /\ Truthy(account.number) => account.type \in {CARD, ACCOUNT}
        /\ account.type = WALLET =>
              /\ account.number = None
              /\ \E k \in 1..Len(WALLETS) : account.name = WALLETS[k]
        /\ account.type = None => ~Truthy(account.number) /\ ~Truthy(account.name)

\* a wallet name stands next to a card number: the card wins and carries no name
C13_Witness ==
    /\ Returned("get_account")
    /\ WalletFrom(process_message(message), 1) # None
    /\ account.type = CARD
    /\ Truthy(account.number)
    /\ account.name = None

\* C14: under any interleaving of concurrent get_transaction_info calls every
\* finished call holds the result of the call run alone on its message, the
\* static tables keep their contents, and the token list of a running call
\* stays the one process_message produced
C14_Isolation ==
    /\ tables = StaticTables
    /\ \A t \in DOMAIN threads :
        /\ threads[t].pc = "done" => threads[t].result = get_transaction_info(threads[t].message)
        /\ threads[t].pc \notin {"start", "done"} =>
               threads[t].processed_message = process_message(threads[t].message)

\* one call has returned a CARD result while another call on a different
\* message is between its extractors
C14_Witness ==
    \E t, u \in DOMAIN threads :
        /\ threads[t].pc = "done" /\ threads[t].result.account.type = CARD
        /\ threads[t].result.balance.outstanding = Chars("500.00")
        /\ threads[u].pc = "amount" /\ threads[u].message = MsgAccount

\* a request to a path under the API prefix
UnderPrefix == http.stage # "none" /\ MatchAt(http.path, 1, API_PREFIX)

\* C15 as stated: a request under the API prefix reaches a handler only with
\* the configured key; without the header it is answered 403 'Authentication
\* required', with a different key 403 'Authentication failed'
C15_AuthAsClaimed ==
    UnderPrefix =>
        /\ http.handler # None => http.provided_key = http.api_key
        /\ http.stage = "responded" /\ http.provided_key = None =>
               http.status = 403 /\ http.error = Chars("Authentication required")
        /\ http.stage = "responded" /\ http.provided_key # None /\ http.provided_key # http.api_key =>
               http.status = 403 /\ http.error = Chars("Authentication failed")

\* C15: a request under the API prefix reaches a handler only when its header
\* equals the configured key; when a key is configured, a missing or empty
\* header is answered 403 'Authentication required' and a non-empty different
\* key 403 'Authentication failed'; when no key is configured every such
\* request is answered 500 'Authentication not configured'
C15_Auth ==
    UnderPrefix =>
        /\ http.stage = "authenticated" \/ http.handler # None =>
               Truthy(http.api_key) /\ http.provided_key = http.api_key
        /\ http.stage = "responded" /\ Truthy(http.api_key) /\ ~Truthy(http.provided_key) =>
               http.status = 403 /\ http.error = Chars("Authentication required")
        /\ http.stage = "responded" /\ Truthy(http.api_key) /\ Truthy(http.provided_key)
               /\ http.provided_key # http.api_key =>
               http.status = 403 /\ http.error = Chars("Authentication failed")
        /\ http.stage = "responded" /\ ~Truthy(http.api_key) =>
               http.status = 500 /\ http.error = Chars("Authentication not configured")

\* a request without the header has been answered while no key is configured
C15_Witness ==
    /\ UnderPrefix /\ http.stage = "responded" /\ http.path = Chars("/api/v1/parse-sms")
    /\ http.api_key = None /\ http.provided_key = None
    /\ http.status = 500 /\ http.handler = None

\* the transaction type by the order of C16: debit verbs and misc
\* debit-implying phrases before credit verbs
TypeByOrder(s) ==
    IF debit_pattern(s) \/ misc_pattern(s) THEN Chars("debit")
    ELSE IF credit_pattern(s) THEN Chars("credit")
    ELSE None

\* C16: when the sufficiency gate passes, transaction.type is 'debit' if the
\* joined tokens match a debit verb or a misc debit-implying phrase, 'credit'
\* only if neither matches and a credit verb does, unset otherwise; a text
\* with 'credited' and 'transaction' is classified 'debit'
C16_TypeOrder ==
    /\ Parsed /\ is_valid(info.balance.available, info.transaction.amount, info.account.number) =>
           info.transaction.type = TypeByOrder(Join(process_message(message)))
    /\ Returned("get_transaction_info") /\ message = MsgCreditedTransaction =>
           info.transaction.type = Chars("debit")

\* the text with 'credited' and 'transaction' has been parsed, the gate passed
C16_Witness ==
    /\ Parsed /\ message = MsgCreditedTransaction
    /\ is_valid(info.balance.available, info.transaction.amount, info.account.number)
    /\ credit_pattern(Join(process_message(message)))
    /\ ~debit_pattern(Join(process_message(message)))
    /\ info.transaction.type = Chars("debit")

\* positions of the standalone "ac" tokens followed by a token that trims to
\* an integer
StandaloneHits(pm) ==
    { i \in 1..(Len(pm) - 1) :
        pm[i] = Chars("ac") /\ IsInt(trim_leading_and_trailing_chars(pm[i + 1])) }

\* positions of the bonded tokens whose remainder is numeric
BondedHits(pm) ==
    { i \in 1..Len(pm) :
        pm[i] # Chars("ac") /\ Contains(pm[i], Chars("ac"))
        /\ extract_bonded_account_no(pm[i]) # <<>> }

\* the number candidate the token at position i gives
NumberAt(pm, i) ==
    IF pm[i] = Chars("ac") THEN trim_leading_and_trailing_chars(pm[i + 1])
    ELSE extract_bonded_account_no(pm[i])

C18_CombinedCardName ==
    Returned("get_account") =>
        LET pm == process_message(message)
            card_index == CardIndexFrom(pm, 1)
        IN  /\ AcScanFrom(pm, 1) = None
            /\ card_index # 0 /\ IsCardWord(pm[card_index])
            /\ (card_index = Len(pm) \/ ~IsInt(pm[card_index + 1]))
            => /\ account.type = CARD
               /\ account.name = pm[card_index]
               /\ account.number = None

\* position of the "rs." that follows the first available-balance keyword in
\* the joined tokens (0: no keyword, or no "rs." after it)
RsAfterKeyword(s) ==
    IF KeywordEndFrom(s, AVAILABLE_BALANCE_KEYWORDS, 1) = 0 THEN 0
    ELSE FindFrom(s, Chars("rs."), KeywordEndFrom(s, AVAILABLE_BALANCE_KEYWORDS, 1))

\* position of the first non-space character after the "rs." at position rs
AfterRs(s, rs) == rs + 3 + SpaceRun(s, rs + 3)

\* C19: in the "rs." path of get_balance the digits of the balance start right
\* after the "rs." that follows the keyword (spaces apart): if the first
\* non-space character after it is not a digit nothing is extracted, and
\* digits later in the message are not returned as the balance
C19_DigitsRightAfterRs ==
    Parsed =>
        LET s == Join(process_message(message))
            rs == RsAfterKeyword(s)
        IN  rs # 0 /\ (AfterRs(s, rs) > Len(s) \/ s[AfterRs(s, rs)] \notin Digits)
            => info.balance.available = None

\* C20: get_balance returns None only when no step of its chain extracts an
\* amount: whenever the fallback regex (keyword then amount, or amount then
\* keyword) matches the joined tokens the available balance is set, also
\* when an "rs." without digits follows the keyword
C20_FallbackAlwaysTried ==
    Parsed /\ find_non_standard_balance(Join(process_message(message)), "AVAILABLE") # None
        => info.balance.available # None

\* positions of the "rs." tokens
RsTokens(pm) == {i \in 1..Len(pm) : pm[i] = Chars("rs.")}

\* the token k places after position i parses as a number once its commas
\* are removed
ParsesAfter(pm, i, k) == i + k <= Len(pm) /\ IsFloat(RemoveCommas(pm[i + k]))

\* C21: get_transaction_amount consults only the first "rs." token: the amount
\* is the padded value of the token right after it when that parses as a
\* number, otherwise of the second token after it when that parses, otherwise
\* empty; it is empty without an "rs." token or with "rs." as last token, and
\* a later "rs." token is never used
C21_FirstRsOnly ==
    Parsed =>
        LET pm == process_message(message)
            first == First(RsTokens(pm))
        IN  /\ first = 0 \/ first = Len(pm) => info.transaction.amount = <<>>
            /\ first # 0 /\ ParsesAfter(pm, first, 1) =>
                   info.transaction.amount = pad_currency_value(RemoveCommas(pm[first + 1]))
            /\ first # 0 /\ ~ParsesAfter(pm, first, 1) /\ ParsesAfter(pm, first, 2) =>
                   info.transaction.amount = pad_currency_value(RemoveCommas(pm[first + 2]))
            /\ first # 0 /\ ~ParsesAfter(pm, first, 1) /\ ~ParsesAfter(pm, first, 2) =>
                   info.transaction.amount = <<>>

\* two "rs." tokens: no number within two tokens of the first, a number right
\* after the second, and the amount is empty
C21_Witness ==
    /\ Parsed /\ message = Chars("Rs. Avl Bal Rs. 1,211.5")
    /\ RsTokens(process_message(message)) = {1, 4}
    /\ ParsesAfter(process_message(message), 4, 1)
    /\ info.transaction.amount = <<>>

\* the UPI keywords that occur in s at a 0-based index > 0
UpiKeywordsIn(s) ==
    { UPI_KEYWORDS[k] : k \in { j \in DOMAIN UPI_KEYWORDS : Find(s, UPI_KEYWORDS[j]) > 1 } }

\* the keywords whose first occurrence is the leftmost one
LeftmostUpiKeywords(s) ==
    { kw \in UpiKeywordsIn(s) : \A other \in UpiKeywordsIn(s) : Find(s, kw) <= Find(s, other) }

\* C22: extract_merchant_info uses the UPI keyword whose occurrence comes
\* first by position in the joined string, not the first of the keyword
\* list: where "ref no 123" precedes "upi 456" the next word is taken after
\* "ref no", so a numeric next word of the leftmost keyword is the referenceNo
C22_LeftmostKeyword ==
    Parsed /\ UpiKeywordsIn(Join(process_message(message))) # {} =>
        \E kw \in LeftmostUpiKeywords(Join(process_message(message))) :
            is_number(get_next_words(Join(process_message(message)), kw)) =>
                info.transaction.reference_no = get_next_words(Join(process_message(message)), kw)

\* position of the "@" of the first "<name><handle>" in s (0: none)
HandleStart(s) ==
    First({k \in 2..Len(s) : s[k] = "@" /\ IsHandleNameChar(s[k - 1]) /\ HandleAt(s, k) # <<>>})

\* first position of the run of name characters that ends before position k
NameStart(s, k) ==
    First({i \in 1..(k - 1) : \A n \in i..(k - 1) : IsHandleNameChar(s[n])})

\* C23: when a UPI keyword matched, its next word is numeric, no merchant is
\* set yet and the message contains "<name><h>" for a handle h of the list,
\* the merchant is the whole matched text "<name><h>", not the handle alone
C23_WholeHandleMatch ==
    Parsed =>
        LET pm == process_message(message)
            s == Join(pm)
            match == UpiKeywordFrom(s, 1)
        IN  /\ match # <<>> /\ is_number(get_next_words(s, match))
            /\ ~Truthy(MerchantFromVPA(pm))
            /\ HandleStart(s) # 0
            => info.transaction.merchant =
                   SubSeq(s, NameStart(s, HandleStart(s)), HandleStart(s) - 1)
                   \o HandleAt(s, HandleStart(s))

\* C24: a referenceNo set by extract_merchant_info consists of decimal digits
\* only: a next word after the UPI keyword that is not purely numeric ("1e5",
\* "nan", "inf") is never assigned to referenceNo as a whole
C24_ReferenceDigitsOnly ==
    Parsed /\ Truthy(info.transaction.reference_no) => AllDigits(info.transaction.reference_no)

\* what each strategy of extract_merchant_info produces on its own, in the
\* order VPA, UPI next word, UPI handle, "at X on", "at X", "on X"
StrategyOutputs(pm) ==
    << MerchantFromVPA(pm),
       IF UpiKeywordFrom(Join(pm), 1) # <<>>
          /\ ~is_number(get_next_words(Join(pm), UpiKeywordFrom(Join(pm), 1)))
       THEN get_next_words(Join(pm), UpiKeywordFrom(Join(pm), 1)) ELSE None,
       IF UpiKeywordFrom(Join(pm), 1) # <<>> THEN UpiHandle(Join(pm)) ELSE None,
       AtOnSearch(Join(pm)),
       AtSearch(Join(pm)),
       OnSearch(Join(pm)) >>

\* C25: the final merchant is the output of the earliest strategy, in the
\* order VPA, UPI next word, UPI handle, "at X on", "at X", "on X", that
\* produced a non-empty value; a merchant set by the VPA step survives the
\* UPI step, which then only sets referenceNo
C25_EarliestStrategyWins ==
    Parsed =>
        LET outputs == StrategyOutputs(process_message(message))
            set == {k \in 1..6 : Truthy(outputs[k])}
        IN  /\ set # {} => info.transaction.merchant = outputs[MinOf(set)]
            /\ set = {} => ~Truthy(info.transaction.merchant)

\* the VPA step set the merchant, the UPI step the referenceNo, and the
\* "at X on" pattern, which matches too, did not replace the merchant
C25_Witness ==
    /\ Parsed /\ message = MsgVpaUpi
    /\ StrategyOutputs(process_message(message))[1] = Chars("shop")
    /\ StrategyOutputs(process_message(message))[4] = Chars("y")
    /\ info.transaction.merchant = Chars("shop")
    /\ info.transaction.reference_no = Chars("345")

\* str with each of ":", "=", "{", "}", newline and carriage return replaced
\* by a space and each "/" replaced by slash
RECURSIVE MapSeparators(_, _)
MapSeparators(str, slash) ==
    IF str = <<>> THEN <<>>
    ELSE (IF str[1] \in {":", "=", "{", "}", "\n", "\r"} THEN <<" ">>
          ELSE IF str[1] = "/" THEN slash
          ELSE <<str[1]>>) \o MapSeparators(Tail(str), slash)

\* no token holds one of the seven characters
NoSeparatorLeft(words) ==
    \A i \in 1..Len(words) : \A n \in 1..Len(words[i]) :
        words[i][n] \notin {":", "/", "=", "{", "}", "\n", "\r"}

\* C26 as stated: process_message replaces each of ":", "/", "=", "{", "}",
\* newline and carriage return by a single space, so each separates tokens
C26_SeparatorsAsClaimed ==
    Returned("process_message") =>
        /\ NoSeparatorLeft(tokens)
        /\ tokens = process_message(MapSeparators(message, <<" ">>))

\* C26: process_message treats each of ":", "=", "{", "}", newline and
\* carriage return as a space, so each separates tokens, and deletes "/", so
\* the text on both sides of a "/" is joined; no token holds any of them
C26_Separators ==
    Returned("process_message") =>
        /\ NoSeparatorLeft(tokens)
        /\ tokens = process_message(MapSeparators(message, <<>>))

\* a message with all seven characters has been normalised
C26_Witness ==
    /\ Returned("process_message") /\ message = MsgSeparators
    /\ tokens = <<Chars("a"), Chars("bc"), Chars("d"), Chars("e"), Chars("f"),
                  Chars("g"), Chars("h")>>

\* C27: "credit card" written with one or more whitespace characters between
\* the two words (two spaces, a line break and a space) is collapsed to the
\* token "c_card" by the normalisation, and likewise the other phrases of the
\* combined-word table to their combined words
C27_CombinedAnyWhitespace ==
    Returned("process_message") =>
        \A k \in DOMAIN COMBINED_WORDS :
            ContainsGapped(LowerStr(message), COMBINED_WORDS[k].first, "some", COMBINED_WORDS[k].second)
            => Contains(Join(tokens), COMBINED_WORDS[k].word)

\* C28: once insert_transaction_data has returned True for a date of sheet S,
\* an answer of get_month_spends or get_transactions_by_date for S reflects
\* the inserted row; an answer served from a cache is what the sheet holds
\* now, never an entry computed before the insert
C28_InsertReflected ==
    /\ last.op = "get_month_spends" /\ last.source = "cache" => last.result = MonthSpends(workbook[last.sheet].rows)
    /\ last.op = "get_transactions_by_date" /\ last.source = "cache" => last.result = TransactionsFrom(workbook[last.sheet].rows, 1)

UpdateOrDelete == {"update_transaction_fields", "delete_transaction_row"}

Reads == {"get_month_spends", "get_transactions_by_date"}

NoEntryOf(cache, sheet_name) == ~cache.monthly_spends_cache[sheet_name].present /\ \A key \in CacheKeys : MatchAt(key, 1, sheet_name) => ~cache.transactions_cache[key].present

\* C30: when update_transaction_fields or delete_transaction_row has returned
\* True for sheet S, monthly_spends_cache has no entry for S and
\* transactions_cache no key of S, and a get_month_spends or
\* get_transactions_by_date for S that comes next does not answer from a
\* cache; when either has returned False, the caches are as they were
C30_Invalidation ==
    [][ /\ last'.op \in UpdateOrDelete => IF last'.result THEN NoEntryOf(caches', last'.sheet) ELSE caches' = caches
        /\ last.op \in UpdateOrDelete /\ last'.op \in Reads => (last.result /\ last'.sheet = last.sheet => last'.source # "cache") ]_vars

\* an update deleted an entry of each cache
C30_Witness == last.op = "update_transaction_fields" /\ last.result /\ Cardinality(last.removed) = 2

Inserted(t) == inserts[t].pc = "returned" /\ inserts[t].result

\* C29: when two concurrent insert_transaction_data calls for the same
\* monthly sheet both return True, they wrote two distinct rows, the formula
\* of each written row names that row, and the sheet holds both rows: no
\* successful insert overwrote the other
C29_DistinctRows ==
    \A t \in DOMAIN inserts, u \in DOMAIN inserts :
        t # u /\ Inserted(t) /\ Inserted(u) =>
            /\ inserts[t].vacant_row # inserts[u].vacant_row
            /\ inserts[t].row_data.formula_row = inserts[t].vacant_row
            /\ inserts[t].vacant_row - 1 <= Len(workbook[InsertSheet].rows)
            /\ workbook[InsertSheet].rows[inserts[t].vacant_row - 1].id = t

====
